---- MODULE Spec2Model ----
(***************************************************************************)
(* Species-occurrence resolution and caching subsystem of the algae        *)
(* dashboard: the persistent GBIFCache (src/lib/species-utils.ts), the     *)
(* GBIF client (fetchTaxonKey, fetchGBIFOccurrences) and the batch         *)
(* orchestrator of MapDataProvider (src/components/map-data-provider.tsx). *)
(*                                                                         *)
(* Nine specifications share the variables below:                         *)
(*   SpecCache   - GBIFCache: construction, the four setters, clearCache   *)
(*   SpecResolve - fetchTaxonKey calls over the taxon-key cache            *)
(*   SpecFetch   - fetchGBIFOccurrences, both variants of the client       *)
(*   Spec        - MapDataProvider: debounce, runs, chunks, publication    *)
(*   SpecMatch   - matchSpeciesName over the module-level match cache, the *)
(*                 static table of fetchTaxonKey, clearGBIFCaches          *)
(*   SpecTransport - fetchGBIFData: the retrying axios instance of the     *)
(*                 first client, the local/direct/proxy chain of the second *)
(*   SpecFair    - Spec with its fairness: due timers fire, requests settle *)
(*   SpecSynonym - resolveSynonym over the whole synonym table             *)
(*   SpecAlgaeMap - AlgaeMap (src/components/algae-map.tsx): loads, the    *)
(*                 per-name cache of the component                         *)
(***************************************************************************)
EXTENDS Integers, Sequences, FiniteSets, TLC

VARIABLES
    storage,      \* localStorage item 'gbif_cache_v1'
    cache,        \* GBIFCache.cache, the in-memory structure
    lastOp,       \* the GBIFCache call that ran last and how it ended
    writeFailures, \* how many times localStorage.setItem has thrown
    callers,      \* the fetchTaxonKey calls: where each stands, what it returned
    nullReturned, \* the names for which a fetchTaxonKey call has returned null
    lastDone,     \* per name, the fetchTaxonKey call that completed last
    fetchers,     \* the fetchGBIFOccurrences calls: where each stands, what it returned
    occurrencesCache, \* the module-level Map of the client variant without GBIFCache
    speciesNames,  \* MapDataProvider: the distinct names of the filtered data
    isMountedRef,  \* isMountedRef.current
    debouncePending, \* the debounced loadOccurrences has a timer pending
    timers,        \* the pending timers of the debounced functions made so far
    delivered,     \* parity of the number of responses handed to the pipelines
    abortControllerRef, \* the run whose AbortController the ref holds, 0 for null
    aborted,       \* the runs whose AbortController has been aborted
    runs,          \* the loadOccurrences invocations that got past the guard
    providerCache, \* the component's Map name -> {taxonKey, occurrences}
    published,     \* the React state consumers read
    transportErrors, \* how many requests have failed at transport level
    matchers,      \* the matchSpeciesName calls: where each stands, what it returned
    speciesMatchCache, \* the module-level Map lower-cased name -> match
    requests,      \* the fetchGBIFData calls: attempts made, waits, how each ended
    mapCache,      \* AlgaeMap: the module-level Map name -> {taxonKey, occurrences}
    mapRun,        \* AlgaeMap: the load under way: its names, lists and pipelines
    mapState,      \* AlgaeMap: loading, failedSpecies, speciesWithGBIFData, occurrences
    frames,        \* the names of the nested matchSpeciesName calls, outermost first
    resolved       \* resolveSynonym of the outermost name, and of that result

cacheVars == <<storage, cache, lastOp, writeFailures>>

resolveVars == <<callers, nullReturned, lastDone>>

fetchVars == <<fetchers, occurrencesCache>>

providerVars ==
    <<speciesNames, isMountedRef, debouncePending, timers, abortControllerRef, aborted, runs,
      providerCache, published, transportErrors, delivered>>

matchVars == <<matchers, speciesMatchCache>>

transportVars == <<requests>>

algaeVars == <<mapCache, mapRun, mapState>>

synonymVars == <<frames, resolved>>

(***************************************************************************)
(* JavaScript values.  A value is a record [type, val] so that equality    *)
(* and typeof are those of the language: null, undefined, a number, a      *)
(* string.  A property that an object does not have is JsAbsent; reading   *)
(* it yields undefined.                                                    *)
(***************************************************************************)
JsNum(n) == [type |-> "number", val |-> n]

JsStr(n) == [type |-> "string", val |-> n]

JsNull == [type |-> "null", val |-> 0]

JsUndefined == [type |-> "undefined", val |-> 0]

JsAbsent == [type |-> "absent", val |-> 0]

\* if (v): null, undefined and 0 are falsy.
Truthy(v) == v.type \in {"number", "string"} /\ v.val # 0

\* obj.prop for a property that may be missing
ReadProp(v) == IF v = JsAbsent THEN JsUndefined ELSE v

\* JSON.stringify of a property value: a property holding undefined is left out.
JsonProp(v) == IF v.type = "undefined" THEN JsAbsent ELSE v

(***************************************************************************)
(* Bounds of the model.                                                    *)
(***************************************************************************)
MaxOccLen == 1

\* how many storage writes may fail in one behaviour
MaxWriteFailures == 1

\* the usage keys that identify cached taxa
TaxonKeys == {1}

\* names that are looked up through the cache (none of them in COMMON_TAXA)
CacheNames == {"Ulva intestinalis", "Nonexistent species"}

MapNames == {"taxonKeys", "occurrences", "speciesDetails", "speciesMatches"}

\* media: what Array.isArray says of it, and its items [type, identifier]
NoMedia == [isArray |-> FALSE, items |-> <<>>]

StillImage == [type |-> "StillImage", identifier |-> JsStr(1)]

OneImage == [isArray |-> TRUE, items |-> <<StillImage>>]

\* A GBIFOccurrence as fetchGBIFOccurrences builds it.
Occ(k, lat, lng, date, media) ==
    [key |-> k, decimalLatitude |-> lat, decimalLongitude |-> lng, eventDate |-> date,
     media |-> media]

\* the record of a response without eventDate: the field is set to undefined
OccPool == { Occ("o1", JsNum(10), JsNum(20), JsUndefined, OneImage) }

RECURSIVE SeqsUpTo(_, _)
SeqsUpTo(S, n) ==
    IF n = 0 THEN {<<>>}
    ELSE LET shorter == SeqsUpTo(S, n - 1)
         IN  shorter \cup {Append(s, x) : s \in {t \in shorter : Len(t) = n - 1}, x \in S}

OccLists == SeqsUpTo(OccPool, MaxOccLen)

DetailQueries == {"ulv"}

(***************************************************************************)
(* GBIFCacheData.  An object is a function from its property names (always *)
(* strings: a numeric taxonKey is coerced, occurrences[5] is               *)
(* occurrences["5"]) to values.  `present` is the set of the four maps the *)
(* object has; a map that is missing reads as undefined and indexing it    *)
(* raises a TypeError.                                                     *)
(***************************************************************************)
EmptyObj == [x \in {} |-> 0]

EmptyCache ==
    [present |-> MapNames, taxonKeys |-> EmptyObj, occurrences |-> EmptyObj,
     speciesDetails |-> EmptyObj, speciesMatches |-> EmptyObj]

\* what JSON.parse yields for '{}', 'null', '5', '[]': no map at all
NoMaps ==
    [present |-> {}, taxonKeys |-> EmptyObj, occurrences |-> EmptyObj,
     speciesDetails |-> EmptyObj, speciesMatches |-> EmptyObj]

\* '{"taxonKeys":{}}': a parseable blob with one of the four maps
OnlyTaxonKeys ==
    [present |-> {"taxonKeys"}, taxonKeys |-> EmptyObj, occurrences |-> EmptyObj,
     speciesDetails |-> EmptyObj, speciesMatches |-> EmptyObj]

PropKey(taxonKey) == ToString(taxonKey)

Put(obj, k, v) == [x \in DOMAIN obj \cup {k} |-> IF x = k THEN v ELSE obj[x]]

\* JSON.stringify of one occurrence: eventDate: undefined is dropped
JsonOcc(o) == [o EXCEPT !.eventDate = JsonProp(o.eventDate)]

JsonOccList(l) == [i \in 1..Len(l) |-> JsonOcc(l[i])]

\* The localStorage item: absent, text JSON.parse rejects, or JSON text
\* (held as the value it denotes).
NoItem == [kind |-> "absent", val |-> NoMaps]

Garbage == [kind |-> "garbage", val |-> NoMaps]

JsonText(v) == [kind |-> "json", val |-> v]

\* a serializer that leaves out properties holding null, as it does undefined
Stringify_NullDropped(c) ==
    LET kept == {n \in DOMAIN c.taxonKeys : c.taxonKeys[n] # JsNull}
    IN  JsonText([c EXCEPT !.taxonKeys = [n \in kept |-> c.taxonKeys[n]],
                           !.occurrences = [k \in DOMAIN c.occurrences |-> JsonOccList(c.occurrences[k])]])

\* JSON.stringify(this.cache)
Stringify(c) ==
    JsonText([c EXCEPT !.occurrences = [k \in DOMAIN c.occurrences |-> JsonOccList(c.occurrences[k])]])

\* loadFromStorage, src/lib/species-utils.ts:92-107
LoadFromStorage(item) ==
    IF item.kind = "json" THEN item.val ELSE EmptyCache

\* getTaxonKey(speciesName): [threw, value]
GetTaxonKey(c, name) ==
    IF "taxonKeys" \notin c.present THEN [threw |-> TRUE, value |-> JsUndefined]
    ELSE [threw |-> FALSE,
          value |-> IF name \in DOMAIN c.taxonKeys THEN c.taxonKeys[name] ELSE JsUndefined]

\* getOccurrences(taxonKey): [threw, found, list]
GetOccurrences(c, taxonKey) ==
    IF "occurrences" \notin c.present THEN [threw |-> TRUE, found |-> FALSE, list |-> <<>>]
    ELSE IF PropKey(taxonKey) \in DOMAIN c.occurrences
         THEN [threw |-> FALSE, found |-> TRUE, list |-> c.occurrences[PropKey(taxonKey)]]
         ELSE [threw |-> FALSE, found |-> FALSE, list |-> <<>>]

\* the assignment of a setter: this.cache.<map>[key] = value
Assign(c, map, k, v) ==
    CASE map = "taxonKeys" -> [c EXCEPT !.taxonKeys = Put(@, k, v)]
      [] map = "occurrences" -> [c EXCEPT !.occurrences = Put(@, k, v)]
      [] map = "speciesDetails" -> [c EXCEPT !.speciesDetails = Put(@, k, v)]
      [] map = "speciesMatches" -> [c EXCEPT !.speciesMatches = Put(@, k, v)]

\* a setter that forgets to persist
SaveToStorage_Never(c, item, ok) == item

\* saveToStorage: localStorage.setItem may throw (quota, no localStorage);
\* the error is caught and logged, the item keeps its old value.
SaveToStorage(c, item, ok) == IF ok THEN Stringify(c) ELSE item

\* whether setItem succeeds: it may throw while the failure budget lasts
WriteOutcomes == IF writeFailures < MaxWriteFailures THEN BOOLEAN ELSE {TRUE}

CountFailure(ok) == IF ok THEN writeFailures ELSE writeFailures + 1

\* A setter: assignment, then saveToStorage.  Indexing a missing map throws
\* before anything is changed.
Setter(op, map, k, v) ==
    \E ok \in WriteOutcomes :
        IF map \notin cache.present
        THEN /\ ok
             /\ lastOp' = [op |-> op, threw |-> TRUE, wrote |-> FALSE]
             /\ UNCHANGED <<cache, storage, writeFailures>>
        ELSE /\ cache' = Assign(cache, map, k, v)
             /\ storage' = SaveToStorage(cache', storage, ok)
             /\ writeFailures' = CountFailure(ok)
             /\ lastOp' = [op |-> op, threw |-> FALSE, wrote |-> ok]

SetTaxonKey ==
    \E name \in CacheNames, v \in {JsNull} \cup {JsNum(k) : k \in TaxonKeys} :
        Setter("setTaxonKey", "taxonKeys", name, v)

SetOccurrences ==
    \E k \in TaxonKeys, l \in OccLists :
        Setter("setOccurrences", "occurrences", PropKey(k), l)

SetSpeciesDetails ==
    Setter("setSpeciesDetails", "speciesDetails", PropKey(1), JsStr(1))

SetSpeciesMatches ==
    \E q \in DetailQueries : Setter("setSpeciesMatches", "speciesMatches", q, JsStr(1))

\* getTaxonKey / getOccurrences called by a client
GetCall ==
    \/ \E name \in CacheNames :
          /\ lastOp' = [op |-> "getTaxonKey", threw |-> GetTaxonKey(cache, name).threw,
                        wrote |-> FALSE]
          /\ UNCHANGED <<cache, storage, writeFailures>>
    \/ \E k \in TaxonKeys :
          /\ lastOp' = [op |-> "getOccurrences", threw |-> GetOccurrences(cache, k).threw,
                        wrote |-> FALSE]
          /\ UNCHANGED <<cache, storage, writeFailures>>

\* clearCache, src/lib/species-utils.ts:153-161
ClearCache ==
    /\ cache' = EmptyCache
    /\ storage' = NoItem
    /\ lastOp' = [op |-> "clearCache", threw |-> FALSE, wrote |-> FALSE]
    /\ UNCHANGED writeFailures

\* the beforeunload listener registered by the constructor
BeforeUnload ==
    \E ok \in WriteOutcomes :
        /\ storage' = SaveToStorage(cache, storage, ok)
        /\ writeFailures' = CountFailure(ok)
        /\ lastOp' = [op |-> "beforeunload", threw |-> FALSE, wrote |-> ok]
        /\ UNCHANGED cache

\* new GBIFCache() in a fresh process
Construct ==
    /\ cache' = LoadFromStorage(storage)
    /\ lastOp' = [op |-> "constructor", threw |-> FALSE, wrote |-> FALSE]
    /\ UNCHANGED <<storage, writeFailures>>


(***************************************************************************)
(* fetchTaxonKey, the variant that uses GBIFCache (part_011:285-327).      *)
(* A call runs to its first await in one step; each network response is a  *)
(* step of its own.  fetchGBIFData resolves with the response data or      *)
(* throws once the transport has given up.                                 *)
(***************************************************************************)
MaxCallers == 2

Callers == 1..MaxCallers

\* COMMON_TAXA, part_011:39-50
COMMON_TAXA ==
    [n \in {"Fucus vesiculosus", "Saccharina latissima", "Laminaria digitata", "Ulva lactuca",
            "Porphyra umbilicalis", "Alaria esculenta", "Palmaria palmata",
            "Himanthalia elongata", "Undaria pinnatifida", "Ascophyllum nodosum"} |->
        CASE n = "Fucus vesiculosus" -> 2563239
          [] n = "Saccharina latissima" -> 2397026
          [] n = "Laminaria digitata" -> 2397025
          [] n = "Ulva lactuca" -> 2399815
          [] n = "Porphyra umbilicalis" -> 2667199
          [] n = "Alaria esculenta" -> 2396889
          [] n = "Palmaria palmata" -> 2664150
          [] n = "Himanthalia elongata" -> 2397056
          [] n = "Undaria pinnatifida" -> 2397034
          [] n = "Ascophyllum nodosum" -> 2396916]

\* the names fetchTaxonKey is called with
ResolveNames == {"Ulva intestinalis", "Fucus vesiculosus"}

\* usage keys the remote taxonomy answers with
RemoteKeys == {1, 2}

\* species/match: a transport error, or data with or without a usageKey
MatchResponses ==
    {[error |-> TRUE, usageKey |-> JsUndefined]}
        \cup {[error |-> FALSE, usageKey |-> v] : v \in {JsUndefined} \cup {JsNum(k) : k \in RemoteKeys}}

\* species/search: a transport error, or data whose results list is empty or
\* starts with an entry that has a key, only a usageKey, or neither
SearchResponses ==
    {[error |-> TRUE, empty |-> TRUE, key |-> JsUndefined, usageKey |-> JsUndefined],
     [error |-> FALSE, empty |-> TRUE, key |-> JsUndefined, usageKey |-> JsUndefined],
     [error |-> FALSE, empty |-> FALSE, key |-> JsNum(1), usageKey |-> JsUndefined],
     [error |-> FALSE, empty |-> FALSE, key |-> JsUndefined, usageKey |-> JsNum(2)],
     [error |-> FALSE, empty |-> FALSE, key |-> JsUndefined, usageKey |-> JsUndefined]}

\* what is remembered of a completed call: its result, how many network
\* requests it issued, and whether it caught no transport error
NoCall == [done |-> FALSE, result |-> JsUndefined, calls |-> 0, clean |-> FALSE]

Completed(result, calls, clean) ==
    [done |-> TRUE, result |-> result, calls |-> calls, clean |-> clean]

IdleCaller ==
    [pc |-> "idle", name |-> "Fucus vesiculosus", result |-> JsUndefined, calls |-> 0,
     afterNull |-> FALSE, prior |-> NoCall]

\* a || b
OrElse(a, b) == IF Truthy(a) THEN a ELSE b

\* a call returns `result`; `clean` tells that no transport error was caught
Return(c, result, clean) ==
    /\ callers' = [callers EXCEPT ![c].pc = "done", ![c].result = result]
    /\ nullReturned' = IF result = JsNull THEN nullReturned \cup {callers[c].name}
                       ELSE nullReturned
    /\ lastDone' = [lastDone EXCEPT ![callers[c].name] = Completed(result, callers[c].calls, clean)]

\* gbifCache.setTaxonKey(name, key) inside fetchTaxonKey
StoreTaxonKey(name, key) ==
    \E ok \in WriteOutcomes :
        /\ cache' = Assign(cache, "taxonKeys", name, key)
        /\ storage' = SaveToStorage(cache', storage, ok)
        /\ writeFailures' = CountFailure(ok)

\* the cache lookup of fetchTaxonKey: the cached key, unless it is undefined
CachedKey(c, name) == GetTaxonKey(c, name).value

\* a lookup that takes a cached null for a miss
HasCachedKey_Truthy(c, name) == Truthy(CachedKey(c, name))

HasCachedKey(c, name) == CachedKey(c, name) # JsUndefined

\* fetchTaxonKey(name) up to its return or its first await, part_011:285-299
FetchTaxonKeyCall(c, name) ==
    /\ callers[c].pc \in {"idle", "done", "threw"}
    /\ LET started == [pc |-> "match", name |-> name, result |-> JsUndefined, calls |-> 1,
                       afterNull |-> name \in nullReturned, prior |-> lastDone[name]]
           returned(v) ==
               /\ callers' = [callers EXCEPT ![c] =
                       [started EXCEPT !.pc = "done", !.calls = 0, !.result = v]]
               /\ nullReturned' = IF v = JsNull THEN nullReturned \cup {name} ELSE nullReturned
               /\ lastDone' = [lastDone EXCEPT ![name] = Completed(v, 0, TRUE)]
       IN  IF name \in DOMAIN COMMON_TAXA
           THEN returned(JsNum(COMMON_TAXA[name]))
           ELSE IF GetTaxonKey(cache, name).threw
           THEN /\ callers' = [callers EXCEPT ![c] = [started EXCEPT !.pc = "threw", !.calls = 0]]
                /\ UNCHANGED <<nullReturned, lastDone>>
           ELSE IF HasCachedKey(cache, name)
           THEN returned(CachedKey(cache, name))
           ELSE /\ callers' = [callers EXCEPT ![c] = started]
                /\ UNCHANGED <<nullReturned, lastDone>>
    /\ UNCHANGED <<cacheVars>>

\* the species/match response arrives, part_011:299-311 and the catch at 323-326
MatchResponse(c, resp) ==
    /\ callers[c].pc = "match"
    /\ IF resp.error
       THEN /\ Return(c, JsNull, FALSE)
            /\ UNCHANGED <<cache, storage, writeFailures>>
       ELSE IF Truthy(resp.usageKey)
       THEN /\ StoreTaxonKey(callers[c].name, resp.usageKey)
            /\ Return(c, resp.usageKey, TRUE)
       ELSE /\ callers' = [callers EXCEPT ![c].pc = "search", ![c].calls = @ + 1]
            /\ UNCHANGED <<nullReturned, lastDone, cache, storage, writeFailures>>
    /\ UNCHANGED lastOp

\* the species/search response arrives, part_011:313-326
SearchResponse(c, resp) ==
    /\ callers[c].pc = "search"
    /\ LET key == OrElse(resp.key, resp.usageKey)
       IN  IF resp.error
           THEN /\ Return(c, JsNull, FALSE)
                /\ UNCHANGED <<cache, storage, writeFailures>>
           ELSE IF ~resp.empty /\ Truthy(key)
           THEN /\ StoreTaxonKey(callers[c].name, key)
                /\ Return(c, key, TRUE)
           ELSE /\ StoreTaxonKey(callers[c].name, JsNull)
                /\ Return(c, JsNull, TRUE)
    /\ UNCHANGED lastOp


(***************************************************************************)
(* fetchGBIFOccurrences.  Variant "cache" is part_011:332-416 (GBIFCache,  *)
(* paging, filtering); variant "map" is part_011:991-1035 (module-level    *)
(* Map, one request, no filtering).                                        *)
(***************************************************************************)
MaxFetchers == 1

MaxPageLen == 1

Fetchers == 1..MaxFetchers

\* the provider's maximum page size, part_011:348
MaxPageSize == 100

\* limit: 1, the default of the "cache" variant, and one that needs two pages
Limits == {1, 100, 200}

\* results of occurrence/search as the remote sends them: well-formed, without
\* decimalLatitude, without media
RawPool ==
    { Occ("o1", JsNum(10), JsNum(20), JsAbsent, OneImage),
      Occ("o2", JsAbsent, JsNum(20), JsAbsent, OneImage),
      Occ("o3", JsNum(10), JsNum(20), JsAbsent, NoMedia) }

\* one occurrence/search response: a transport error, data without results,
\* or data with a results list
PageResponses ==
    {[error |-> TRUE, hasResults |-> FALSE, results |-> <<>>],
     [error |-> FALSE, hasResults |-> FALSE, results |-> <<>>]}
        \cup {[error |-> FALSE, hasResults |-> TRUE, results |-> l] : l \in SeqsUpTo(RawPool, MaxPageLen)}

Min(a, b) == IF a < b THEN a ELSE b

\* Math.ceil(limit / pageSize)
PagesToFetch(limit) ==
    LET pageSize == Min(limit, MaxPageSize)
    IN  (limit + pageSize - 1) \div pageSize

\* the filter of part_011:384-388
IsValidOccurrence(r, hasImages) ==
    /\ ReadProp(r.decimalLatitude).type = "number"
    /\ ReadProp(r.decimalLongitude).type = "number"
    /\ (~hasImages \/ (r.media.isArray /\ Len(r.media.items) > 0))

\* Number(x || 0)
NumberOr0(v) == IF Truthy(ReadProp(v)) THEN JsNum(ReadProp(v).val) ELSE JsNum(0)

\* the media of a built record, part_011:395-403
BuildMedia(m) ==
    IF m.isArray
    THEN LET still(i) == i.type = "StillImage" /\ ReadProp(i.identifier).type = "string"
         IN  [isArray |-> TRUE, items |-> SelectSeq(m.items, still)]
    ELSE NoMedia

\* the record built from a valid result, part_011:389-404
BuildOccurrence(r) ==
    Occ(r.key, NumberOr0(r.decimalLatitude), NumberOr0(r.decimalLongitude),
        IF Truthy(ReadProp(r.eventDate)) THEN JsStr(ReadProp(r.eventDate).val) ELSE JsUndefined,
        BuildMedia(r.media))

\* the record the "map" variant builds, part_011:1017-1024: the fields as they are
CopyOccurrence(r) ==
    Occ(r.key, ReadProp(r.decimalLatitude), ReadProp(r.decimalLongitude),
        ReadProp(r.eventDate), r.media)

ValidOccurrences(results, hasImages) ==
    LET keep(r) == IsValidOccurrence(r, hasImages)
        valid == SelectSeq(results, keep)
    IN  [i \in 1..Len(valid) |-> BuildOccurrence(valid[i])]

\* the loop over the pages, part_011:380-407: it stops at the first page
\* without results
RECURSIVE CollectPages(_, _, _)
CollectPages(pages, i, hasImages) ==
    IF i > Len(pages) THEN <<>>
    ELSE IF ~pages[i].hasResults \/ pages[i].results = <<>> THEN <<>>
    ELSE ValidOccurrences(pages[i].results, hasImages) \o CollectPages(pages, i + 1, hasImages)

\* allResults.slice(0, limit)
Slice(l, limit) == SubSeq(l, 1, Min(limit, Len(l)))

IdleFetcher ==
    [pc |-> "idle", variant |-> "cache", taxonKey |-> 0, limit |-> 100, hasImages |-> TRUE,
     pages |-> 0, result |-> <<>>, served |-> ""]

\* fetchGBIFOccurrences(taxonKey, limit, true, hasImages) up to its return or
\* its first await, part_011:338-378 and 997-1014; served tells where a
\* returned list came from: "guard" (no key), "cache", "network" (built from
\* the response), "nodata" (a response without results), "failed" (the catch)
FetchOccurrencesCall(f, variant, taxonKey, limit, hasImages) ==
    /\ fetchers[f].pc \in {"idle", "done", "threw"}
    /\ LET started == [pc |-> "pages", variant |-> variant, taxonKey |-> taxonKey,
                       limit |-> limit, hasImages |-> hasImages,
                       pages |-> IF variant = "cache" THEN PagesToFetch(limit) ELSE 1,
                       result |-> <<>>, served |-> ""]
           returned(l, from) ==
               [started EXCEPT !.pc = "done", !.pages = 0, !.result = l, !.served = from]
           got == GetOccurrences(cache, taxonKey)
       IN  fetchers' = [fetchers EXCEPT ![f] =
               IF taxonKey = 0 THEN returned(<<>>, "guard")
               ELSE IF variant = "cache"
               THEN IF got.threw THEN [started EXCEPT !.pc = "threw", !.pages = 0]
                    ELSE IF got.found THEN returned(got.list, "cache")
                    ELSE started
               ELSE IF taxonKey \in DOMAIN occurrencesCache
                    THEN returned(occurrencesCache[taxonKey], "cache")
                    ELSE started]
    /\ UNCHANGED <<cacheVars, occurrencesCache>>

\* a store that keeps non-empty lists only
StoreOccurrences_NotEmpty(taxonKey, l) ==
    \E ok \in WriteOutcomes :
        /\ cache' = IF l = <<>> THEN cache ELSE Assign(cache, "occurrences", PropKey(taxonKey), l)
        /\ storage' = SaveToStorage(cache', storage, ok)
        /\ writeFailures' = CountFailure(ok)

\* gbifCache.setOccurrences(taxonKey, list) inside fetchGBIFOccurrences
StoreOccurrences(taxonKey, l) ==
    \E ok \in WriteOutcomes :
        /\ cache' = Assign(cache, "occurrences", PropKey(taxonKey), l)
        /\ storage' = SaveToStorage(cache', storage, ok)
        /\ writeFailures' = CountFailure(ok)

\* Promise.all over the pages settles, part_011:378-415
PagesResponse(f, pages) ==
    /\ fetchers[f].pc = "pages"
    /\ fetchers[f].variant = "cache"
    /\ Len(pages) = fetchers[f].pages
    /\ IF \E i \in 1..Len(pages) : pages[i].error
       THEN /\ fetchers' = [fetchers EXCEPT ![f].pc = "done", ![f].result = <<>>,
                                             ![f].served = "failed"]
            /\ UNCHANGED <<cache, storage, writeFailures>>
       ELSE LET finalResults ==
                    Slice(CollectPages(pages, 1, fetchers[f].hasImages), fetchers[f].limit)
            IN  /\ StoreOccurrences(fetchers[f].taxonKey, finalResults)
                /\ fetchers' = [fetchers EXCEPT ![f].pc = "done", ![f].result = finalResults,
                                                 ![f].served = "network"]
    /\ UNCHANGED <<lastOp, occurrencesCache>>

\* the single response of the "map" variant arrives, part_011:1006-1034
SearchOccurrencesResponse(f, resp) ==
    /\ fetchers[f].pc = "pages"
    /\ fetchers[f].variant = "map"
    /\ IF resp.error \/ ~resp.hasResults
       THEN /\ fetchers' = [fetchers EXCEPT ![f].pc = "done", ![f].result = <<>>,
                                             ![f].served = IF resp.error THEN "failed"
                                                           ELSE "nodata"]
            /\ UNCHANGED occurrencesCache
       ELSE LET occurrences == [i \in 1..Len(resp.results) |-> CopyOccurrence(resp.results[i])]
            IN  /\ occurrencesCache' =
                        Put(occurrencesCache, fetchers[f].taxonKey, occurrences)
                /\ fetchers' = [fetchers EXCEPT ![f].pc = "done", ![f].result = occurrences,
                                                 ![f].served = "network"]
    /\ UNCHANGED cacheVars

(***************************************************************************)
(* MapDataProvider, src/components/map-data-provider.tsx, over the client  *)
(* with GBIFCache.  A step is a macrotask: the handler runs together with  *)
(* every continuation that needs no network response.                     *)
(***************************************************************************)
MaxRuns == 2

\* how many requests may fail at transport level (retries exhausted) in one
\* behaviour
MaxTransportErrors == 1

\* map-data-provider.tsx:110
concurrencyLimit == 3

\* the default limit of fetchGBIFOccurrences, part_011:334
DefaultLimit == 100

\* two names of COMMON_TAXA and two that are not
ProviderNames ==
    <<"Fucus vesiculosus", "Ulva lactuca", "Nonexistent species", "Ulva intestinalis">>

\* the values speciesNames takes: no name, or two chunks of names
NameLists == {<<>>, ProviderNames}

Range(l) == {l[i] : i \in 1..Len(l)}

Drop(obj, k) == [x \in DOMAIN obj \ {k} |-> obj[x]]

\* The remote taxonomy and occurrence index: species/match knows one name,
\* species/search none, two taxa have occurrences.
MatchAnswer(name) ==
    [error |-> FALSE,
     usageKey |-> IF name = "Ulva intestinalis" THEN JsNum(1) ELSE JsUndefined]

SearchAnswer(name) ==
    [error |-> FALSE, empty |-> TRUE, key |-> JsUndefined, usageKey |-> JsUndefined]

PageAnswer(taxonKey) ==
    [error |-> FALSE, hasResults |-> TRUE,
     results |-> IF taxonKey \in {1, COMMON_TAXA["Fucus vesiculosus"]}
                 THEN <<Occ(ToString(taxonKey), JsNum(10), JsNum(20), JsAbsent, OneImage)>>
                 ELSE <<>>]

\* What a pipeline does next: it has pushed to the success lists, pushed a
\* failure, or awaits a response.  depth counts the awaits on settled
\* promises it took to get there.  how tells what the calls of the pipeline
\* returned: "null" (fetchTaxonKey returned a falsy key), "empty" (a key, and
\* an empty list), "list" (a non-empty list), "threw" (a call threw).
Success(taxonKey, occurrences, store, depth) ==
    [kind |-> "success", pc |-> "", taxonKey |-> taxonKey, occurrences |-> occurrences,
     error |-> "", store |-> store, depth |-> depth, how |-> "list"]

Failure(error, how, depth) ==
    [kind |-> "failed", pc |-> "", taxonKey |-> 0, occurrences |-> <<>>,
     error |-> error, store |-> FALSE, depth |-> depth, how |-> how]

Await(pc, taxonKey) ==
    [kind |-> "await", pc |-> pc, taxonKey |-> taxonKey, occurrences |-> <<>>,
     error |-> "", store |-> FALSE, depth |-> 0, how |-> ""]

\* a pipeline that takes an empty list for a success
AfterOccurrences_EmptyIsSuccess(taxonKey, occurrences, depth) ==
    [Success(taxonKey, occurrences, TRUE, depth) EXCEPT
        !.how = IF Len(occurrences) > 0 THEN "list" ELSE "empty"]

\* processSpecies from the return of fetchGBIFOccurrences, lines 68-75
AfterOccurrences(taxonKey, occurrences, depth) ==
    IF Len(occurrences) > 0 THEN Success(taxonKey, occurrences, TRUE, depth)
    ELSE Failure("No occurrences found", "empty", depth)

\* processSpecies from the return of fetchTaxonKey to the next await on the
\* network, lines 66-78 with part_011:338-344; a TypeError of the cache
\* lookup rejects the call and lands in the catch of lines 79-83
AfterTaxonKey(c, taxonKey, depth) ==
    IF ~Truthy(taxonKey) THEN Failure("Species not found in GBIF", "null", depth)
    ELSE LET got == GetOccurrences(c, taxonKey.val)
         IN  IF got.threw THEN Failure("Error fetching data", "threw", depth + 1)
             ELSE IF got.found THEN AfterOccurrences(taxonKey.val, got.list, depth + 1)
             ELSE Await("pages", taxonKey.val)

\* processSpecies(name) up to its first await on the network, lines 54-67 with
\* part_011:285-299
ProcessSpeciesCall(gbif, c, name) ==
    IF name \in DOMAIN gbif
    THEN Success(gbif[name].taxonKey, gbif[name].occurrences, FALSE, 0)
    ELSE IF name \in DOMAIN COMMON_TAXA THEN AfterTaxonKey(c, JsNum(COMMON_TAXA[name]), 1)
    ELSE IF GetTaxonKey(c, name).threw THEN Failure("Error fetching data", "threw", 1)
    ELSE IF HasCachedKey(c, name) THEN AfterTaxonKey(c, CachedKey(c, name), 1)
    ELSE Await("match", 0)

\* a loadOccurrences invocation: its closure (names, the three lists), the
\* chunk it is at, the pipelines of the chunk that await a response; and for
\* the properties: whether it published ("no", "current", or "stale" when
\* speciesNames no longer held its set of names), the names one of whose
\* requests failed at transport level, and per name what its calls returned
NewRun(names) ==
    [names |-> names, status |-> "running", i |-> 1, pipes |-> EmptyObj,
     newOccurrences |-> <<>>, successfulSpecies |-> <<>>, failedSpeciesList |-> <<>>,
     published |-> "no", transport |-> {}, how |-> EmptyObj]

\* the pushes and the cache entry of one pipeline, lines 60-61, 70-72, 74, 77, 82
Settle(s, name, o) ==
    CASE o.kind = "success" ->
            [run |-> [s.run EXCEPT !.newOccurrences = @ \o o.occurrences,
                                   !.successfulSpecies = Append(@, name),
                                   !.how = Put(@, name, o.how)],
             gbif |-> IF o.store
                      THEN Put(s.gbif, name,
                               [taxonKey |-> o.taxonKey, occurrences |-> o.occurrences])
                      ELSE s.gbif]
      [] o.kind = "failed" ->
            [s EXCEPT !.run.failedSpeciesList = Append(@, [name |-> name, error |-> o.error]),
                      !.run.how = Put(@, name, o.how)]
      [] o.kind = "await" ->
            [s EXCEPT !.run.pipes = Put(@, name, [pc |-> o.pc, taxonKey |-> o.taxonKey])]

\* chunk.map(processSpecies) and the continuations that need no response, in
\* the order the microtask queue runs them: by depth, then by position
RECURSIVE SettleChunk(_, _, _, _, _)
SettleChunk(s, c, chunk, depth, idx) ==
    IF depth > 2 THEN s
    ELSE IF idx > Len(chunk) THEN SettleChunk(s, c, chunk, depth + 1, 1)
    ELSE LET o == ProcessSpeciesCall(s.gbif, c, chunk[idx])
         IN  SettleChunk(IF o.depth = depth THEN Settle(s, chunk[idx], o) ELSE s,
                         c, chunk, depth, idx + 1)

\* a loop that maps processSpecies over all the names that are left at once
RunLoop_AllAtOnce(s, c, mounted, i) ==
    IF i > Len(s.run.names) \/ ~mounted
    THEN [s EXCEPT !.run.status = "completed", !.run.i = i]
    ELSE LET chunk == SubSeq(s.run.names, i, Len(s.run.names))
             s1 == SettleChunk([s EXCEPT !.run.i = i], c, chunk, 0, 1)
         IN  IF DOMAIN s1.run.pipes # {} THEN s1
             ELSE [s1 EXCEPT !.run.status = "completed", !.run.i = Len(s.run.names) + 1]

\* the loop of lines 111-119 from index i (1-based) until a chunk awaits a
\* response or the loop ends
RECURSIVE RunLoop(_, _, _, _)
RunLoop(s, c, mounted, i) ==
    IF i > Len(s.run.names) \/ ~mounted
    THEN [s EXCEPT !.run.status = "completed", !.run.i = i]
    ELSE LET chunk == SubSeq(s.run.names, i, Min(i + concurrencyLimit - 1, Len(s.run.names)))
             s1 == SettleChunk([s EXCEPT !.run.i = i], c, chunk, 0, 1)
         IN  IF DOMAIN s1.run.pipes # {} THEN s1
             ELSE RunLoop(s1, c, mounted, i + concurrencyLimit)

\* a publication that does not look at isMountedRef
Publish_Unguarded(state, run) ==
    IF run.status = "completed"
    THEN [state EXCEPT !.speciesWithGBIFData = run.successfulSpecies,
                       !.failedSpecies = run.failedSpeciesList,
                       !.occurrences = run.newOccurrences,
                       !.isLoading = FALSE]
    ELSE state

\* a publication without the finally block
Publish_NoFinally(state, run) ==
    IF run.status = "completed" /\ isMountedRef
    THEN [state EXCEPT !.speciesWithGBIFData = run.successfulSpecies,
                       !.failedSpecies = run.failedSpeciesList,
                       !.occurrences = run.newOccurrences]
    ELSE state

\* lines 121-125 and 131-135 once the loop has ended
Publish(state, run) ==
    IF run.status = "completed" /\ isMountedRef
    THEN [state EXCEPT !.speciesWithGBIFData = run.successfulSpecies,
                       !.failedSpecies = run.failedSpeciesList,
                       !.occurrences = run.newOccurrences,
                       !.isLoading = FALSE]
    ELSE state

Published(run) ==
    IF run.status = "completed" /\ isMountedRef
    THEN [run EXCEPT !.published =
              IF Range(run.names) = Range(speciesNames) THEN "current" ELSE "stale"]
    ELSE run

\* a cleanup that leaves the timer of its debounced function running
Cancel_Nothing(pending) == pending

\* debouncedLoadOccurrences.cancel() in the cleanup, line 150: the effect of
\* the last render is the one cleaned up, and the debounced function of any
\* earlier render was cancelled by the cleanup of its own effect
Cancel(pending) == {}

\* debouncedLoadOccurrences() in the effect, line 146: the debounced function
\* of this render, made for the loadOccurrences that closes over `names`
\* (lines 87, 136, 139-142), starts its window of 1000 ms; restarted tells
\* that this change came while a window was open
Armed(pending, names) == [names |-> names, restarted |-> pending # {}]

\* the cleanup of the effect, lines 148-154
Cleanup ==
    /\ aborted' = aborted \cup (IF abortControllerRef # 0 THEN {abortControllerRef} ELSE {})
    /\ UNCHANGED abortControllerRef

\* filteredData changes: speciesNames, loadOccurrences and the debounced
\* function are made anew, the effect's cleanup runs and the effect runs
\* again, lines 42-45, 139-155
InputChange(names) ==
    /\ isMountedRef
    /\ speciesNames' = names
    /\ Cleanup
    /\ isMountedRef' = TRUE
    /\ timers' = Cancel(timers) \cup {Armed(timers, names)}
    /\ debouncePending' = TRUE
    /\ UNCHANGED <<runs, providerCache, published, transportErrors, delivered, cacheVars>>

\* the component unmounts: the cleanup alone
Unmount ==
    /\ isMountedRef
    /\ Cleanup
    /\ isMountedRef' = FALSE
    /\ timers' = Cancel(timers)
    /\ debouncePending' = (timers' # {})
    /\ UNCHANGED <<speciesNames, runs, providerCache, published, transportErrors, delivered,
                   cacheVars>>

\* the timer of a debounced function fires: its loadOccurrences(), lines
\* 87-136, with the speciesNames of the render that made it
LoadOccurrences ==
    /\ debouncePending
    /\ \E t \in timers :
        /\ timers' = timers \ {t}
        /\ debouncePending' = (timers' # {})
        /\ IF ~isMountedRef \/ Len(t.names) = 0
           THEN /\ published' = [published EXCEPT !.isLoading = FALSE]
                /\ UNCHANGED <<abortControllerRef, aborted, runs, providerCache>>
           ELSE /\ Len(runs) < MaxRuns
                /\ aborted' = aborted \cup (IF abortControllerRef # 0 THEN {abortControllerRef} ELSE {})
                /\ abortControllerRef' = Len(runs) + 1
                /\ LET reset == [published EXCEPT !.isLoading = TRUE, !.error = JsNull,
                                                  !.failedSpecies = <<>>,
                                                  !.speciesWithGBIFData = <<>>]
                       s == RunLoop([run |-> NewRun(t.names),
                                     gbif |-> providerCache],
                                    cache, TRUE, 1)
                   IN  /\ runs' = Append(runs, Published(s.run))
                       /\ providerCache' = s.gbif
                       /\ published' = Publish(reset, s.run)
    /\ UNCHANGED <<speciesNames, isMountedRef, transportErrors, delivered, cacheVars>>

Waits(r, name, pc) ==
    /\ r \in DOMAIN runs
    /\ name \in DOMAIN runs[r].pipes
    /\ runs[r].pipes[name].pc = pc

\* a response may be a transport error while the budget lasts
MayFail(err) == err => transportErrors < MaxTransportErrors

\* the pipeline of `name` in run r goes on with outcome o, c being the cache
\* after the response was handled; when it was the last of its chunk the loop
\* goes on, lines 114-135
Continue(r, name, o, c, err) ==
    LET s0 == [run |-> [runs[r] EXCEPT !.pipes = Drop(@, name),
                                       !.transport = IF err THEN @ \cup {name} ELSE @],
               gbif |-> providerCache]
        s1 == Settle(s0, name, o)
        s2 == IF DOMAIN s1.run.pipes = {}
              THEN RunLoop(s1, c, isMountedRef, s1.run.i + concurrencyLimit)
              ELSE s1
    IN  /\ runs' = [runs EXCEPT ![r] = Published(s2.run)]
        /\ providerCache' = s2.gbif
        /\ published' = Publish(published, s2.run)
        /\ transportErrors' = IF err THEN transportErrors + 1 ELSE transportErrors
        /\ delivered' = ~delivered
        /\ UNCHANGED <<speciesNames, isMountedRef, debouncePending, timers, abortControllerRef, aborted>>

\* species/match settles for a pipeline, part_011:299-304 and 323-326
MatchSettled(r, name, err) ==
    /\ Waits(r, name, "match")
    /\ MayFail(err)
    /\ LET resp == MatchAnswer(name)
       IN  IF err
           THEN /\ Continue(r, name, AfterTaxonKey(cache, JsNull, 0), cache, TRUE)
                /\ UNCHANGED cacheVars
           ELSE IF Truthy(resp.usageKey)
           THEN /\ StoreTaxonKey(name, resp.usageKey)
                /\ Continue(r, name, AfterTaxonKey(cache', resp.usageKey, 0), cache', FALSE)
                /\ UNCHANGED lastOp
           ELSE /\ Continue(r, name, Await("search", 0), cache, FALSE)
                /\ UNCHANGED cacheVars

\* species/search settles for a pipeline, part_011:306-326
SearchSettled(r, name, err) ==
    /\ Waits(r, name, "search")
    /\ MayFail(err)
    /\ LET resp == SearchAnswer(name)
           key == OrElse(resp.key, resp.usageKey)
       IN  IF err
           THEN /\ Continue(r, name, AfterTaxonKey(cache, JsNull, 0), cache, TRUE)
                /\ UNCHANGED cacheVars
           ELSE IF ~resp.empty /\ Truthy(key)
           THEN /\ StoreTaxonKey(name, key)
                /\ Continue(r, name, AfterTaxonKey(cache', key, 0), cache', FALSE)
                /\ UNCHANGED lastOp
           ELSE /\ StoreTaxonKey(name, JsNull)
                /\ Continue(r, name, AfterTaxonKey(cache', JsNull, 0), cache', FALSE)
                /\ UNCHANGED lastOp

\* the page of occurrence/search settles for a pipeline, part_011:378-415
PagesSettled(r, name, err) ==
    /\ Waits(r, name, "pages")
    /\ MayFail(err)
    /\ LET taxonKey == runs[r].pipes[name].taxonKey
           finalResults == Slice(CollectPages(<<PageAnswer(taxonKey)>>, 1, TRUE), DefaultLimit)
       IN  IF err
           THEN /\ Continue(r, name, AfterOccurrences(taxonKey, <<>>, 0), cache, TRUE)
                /\ UNCHANGED cacheVars
           ELSE /\ StoreOccurrences(taxonKey, finalResults)
                /\ Continue(r, name, AfterOccurrences(taxonKey, finalResults, 0), cache', FALSE)
                /\ UNCHANGED lastOp

(***************************************************************************)
(* matchSpeciesName (src/unnamed/part_011:128-236) over the module-level   *)
(* speciesMatchCache, with the synonym table, and clearGBIFCaches.  A call *)
(* runs up to its first network request in one step; a call for a synonym  *)
(* first awaits a nested call for the accepted name (the inner frame) and  *)
(* goes on with its own requests when that call found nothing.  Strings    *)
(* are taken from MatchNames; trim, toLowerCase, split and join are given  *)
(* by what they yield on these strings.                                    *)
(***************************************************************************)
MaxMatchers == 1

Matchers == 1..MaxMatchers

\* the table of part_011:82-114, entry by entry
SynonymEntries ==
    <<
       <<"Fucus sp.", "Fucus vesiculosus">>,
       <<"Laminaria sp.", "Laminaria digitata">>,
       <<"Ulva sp.", "Ulva lactuca">>,
       <<"Porphyra sp.", "Porphyra umbilicalis">>,
       <<"Chondrus crispus", "Chondrus crispus">>,
       <<"Codium fragile", "Codium fragile">>,
       <<"Enteromorpha sp.", "Ulva intestinalis">>,
       <<"Enteromorpha intestinalis", "Ulva intestinalis">>,
       <<"Enteromorpha compressa", "Ulva compressa">>,
       <<"Laminaria hyperborea", "Laminaria hyperborea">>,
       <<"Laminaria saccharina", "Saccharina latissima">>,
       <<"Sargassum muticum", "Sargassum muticum">>,
       <<"Macrocystis pyrifera", "Macrocystis pyrifera">>,
       <<"Gracilaria sp.", "Gracilaria gracilis">>,
       <<"Gelidium sp.", "Gelidium corneum">>,
       <<"Cystoseira sp.", "Cystoseira baccata">>,
       <<"Calliblepharis sp.", "Calliblepharis ciliata">>,
       <<"Cladophora sp.", "Cladophora rupestris">>,
       <<"Mastocarpus stellatus", "Mastocarpus stellatus">>,
       <<"Dilsea carnosa", "Dilsea carnosa">>,
       <<"Grateloupia turuturu", "Grateloupia turuturu">>,
       <<"Chorda filum", "Chorda filum">>,
       <<"Bifurcaria bifurcata", "Bifurcaria bifurcata">>,
       <<"Ectocarpus sp.", "Ectocarpus siliculosus">>,
       <<"Eisenia arborea", "Eisenia arborea">>,
       <<"Polysiphonia sp.", "Polysiphonia fucoides">>,
       <<"Asparagopsis sp.", "Asparagopsis armata">>,
       <<"Ceramium sp.", "Ceramium virgatum">>,
       <<"Sphaerotrichia divaricata", "Sphaerotrichia divaricata">>
    >>

\* a table in which a synonym is mapped to another synonym
TAXONOMIC_SYNONYMS_Chained ==
    [n \in {SynonymEntries[i][1] : i \in DOMAIN SynonymEntries} |->
        IF n = "Enteromorpha sp." THEN "Enteromorpha intestinalis"
        ELSE SynonymEntries[CHOOSE i \in DOMAIN SynonymEntries : SynonymEntries[i][1] = n][2]]

TAXONOMIC_SYNONYMS ==
    [n \in {SynonymEntries[i][1] : i \in DOMAIN SynonymEntries} |->
        SynonymEntries[CHOOSE i \in DOMAIN SynonymEntries : SynonymEntries[i][1] = n][2]]

\* names handed to matchSpeciesName: a synonym of a name of COMMON_TAXA, that
\* name itself with and without a trailing blank, a synonym of another name,
\* that name itself, and the same followed by an author
MatchNames ==
    {"Fucus sp.", "Fucus vesiculosus", "Fucus vesiculosus ", "Enteromorpha intestinalis",
     "Ulva intestinalis", "Ulva intestinalis L."}

\* s.trim(): the names of the model that have a blank at an end
Trim(s) ==
    CASE s = "Fucus vesiculosus " -> "Fucus vesiculosus"
      [] s = " Fucus sp." -> "Fucus sp."
      [] s = "Laminaria saccharina " -> "Laminaria saccharina"
      [] s = " Palmaria palmata " -> "Palmaria palmata"
      [] OTHER -> s

\* s.toLowerCase(), for a trimmed name
ToLowerCase(s) ==
    CASE s = "Fucus sp." -> "fucus sp."
      [] s = "Fucus vesiculosus" -> "fucus vesiculosus"
      [] s = "Enteromorpha intestinalis" -> "enteromorpha intestinalis"
      [] s = "Ulva intestinalis" -> "ulva intestinalis"
      [] s = "Ulva intestinalis L." -> "ulva intestinalis l."

\* s.split(" "), for a trimmed name
Split(s) ==
    CASE s = "Fucus sp." -> <<"Fucus", "sp.">>
      [] s = "Fucus vesiculosus" -> <<"Fucus", "vesiculosus">>
      [] s = "Enteromorpha intestinalis" -> <<"Enteromorpha", "intestinalis">>
      [] s = "Ulva intestinalis" -> <<"Ulva", "intestinalis">>
      [] s = "Ulva intestinalis L." -> <<"Ulva", "intestinalis", "L.">>

\* parts.join(" ")
Join(parts) == CHOOSE n \in {Trim(x) : x \in MatchNames} : Split(n) = parts

\* part_011:119-122
resolveSynonym(name) ==
    LET normalizedName == Trim(name)
    IN  IF normalizedName \in DOMAIN TAXONOMIC_SYNONYMS
        THEN TAXONOMIC_SYNONYMS[normalizedName]
        ELSE normalizedName

\* the fields of a GBIFSpeciesMatch that the code reads; NullMatch stands for null
NullMatch == [usageKey |-> JsNull, confidence |-> 0]

\* matchData of part_011:139-154
CommonMatch(normalizedName) ==
    [usageKey |-> JsNum(COMMON_TAXA[normalizedName]), confidence |-> 100]

\* species/match as matchSpeciesName reads it: a transport error, or data
\* without a usageKey, or data with a usageKey and a confidence
SpeciesMatchResponses ==
    {[error |-> TRUE, usageKey |-> JsUndefined, confidence |-> 0],
     [error |-> FALSE, usageKey |-> JsUndefined, confidence |-> 0],
     [error |-> FALSE, usageKey |-> JsNum(1), confidence |-> 95]}

\* a call: inner is TRUE while the nested call for the accepted name runs;
\* a request is outstanding exactly while pc is "match" or "fuzzy"; clean is
\* FALSE once a request has failed, reduced is TRUE when the match came
\* from the two-token form
IdleMatcher ==
    [pc |-> "idle", name |-> "Ulva intestinalis", inner |-> FALSE,
     clean |-> TRUE, reduced |-> FALSE, result |-> NullMatch]

\* the name the running frame was called with
FrameName(m) == IF m.inner THEN resolveSynonym(m.name) ELSE m.name

\* cacheKey of the running frame, part_011:158
CacheKey(m) == ToLowerCase(Trim(FrameName(m)))

RECURSIVE FrameReturns(_, _)

\* part_011:176-204 of the running frame: the cached match of the first two
\* tokens, else the species/match request
Variants(st) ==
    LET normalizedName == Trim(resolveSynonym(FrameName(st.matcher)))
        parts == Split(normalizedName)
        simplifiedName == Join(SubSeq(parts, 1, 2))
    IN  IF Len(parts) > 2 /\ ToLowerCase(simplifiedName) \in DOMAIN st.cache
        THEN LET match == st.cache[ToLowerCase(simplifiedName)]
             IN  FrameReturns([matcher |-> [st.matcher EXCEPT !.reduced = TRUE],
                               cache |-> Put(st.cache, CacheKey(st.matcher), match)], match)
        ELSE [st EXCEPT !.matcher.pc = "match"]

\* the running frame returns match: the call is over, or the caller's frame
\* goes on after its await, part_011:167-172
FrameReturns(st, match) ==
    IF ~st.matcher.inner
    THEN [st EXCEPT !.matcher.pc = "done", !.matcher.result = match]
    ELSE LET outer == [st.matcher EXCEPT !.inner = FALSE]
         IN  IF match # NullMatch
             THEN [matcher |-> [outer EXCEPT !.pc = "done", !.result = match],
                   cache |-> Put(st.cache, CacheKey(outer), match)]
             ELSE Variants([st EXCEPT !.matcher = outer])

IsCommon_Never(normalizedName) == FALSE

\* COMMON_TAXA[normalizedName] as a condition, part_011:135
IsCommon(normalizedName) == normalizedName \in DOMAIN COMMON_TAXA

RECURSIVE Enter(_)

\* part_011:129-174 of the running frame
Enter(st) ==
    LET name == FrameName(st.matcher)
        resolvedName == resolveSynonym(name)
        normalizedName == Trim(resolvedName)
    IN  IF IsCommon(normalizedName)
        THEN FrameReturns([st EXCEPT !.cache = Put(@, CacheKey(st.matcher),
                                                   CommonMatch(normalizedName))],
                          CommonMatch(normalizedName))
        ELSE IF CacheKey(st.matcher) \in DOMAIN st.cache
        THEN FrameReturns(st, st.cache[CacheKey(st.matcher)])
        ELSE IF resolvedName # name
        THEN Enter([st EXCEPT !.matcher.inner = TRUE])
        ELSE Variants(st)

Running(m) == [matcher |-> matchers[m], cache |-> speciesMatchCache]

Becomes(m, st) ==
    /\ matchers' = [matchers EXCEPT ![m] = st.matcher]
    /\ speciesMatchCache' = st.cache

\* matchSpeciesName(name) up to its return or its first request; name is not
\* empty, so the guard of line 129 does not apply
MatchSpeciesNameCall(m, name) ==
    /\ matchers[m].pc \in {"idle", "done"}
    /\ Becomes(m, Enter([matcher |-> [IdleMatcher EXCEPT !.name = name],
                         cache |-> speciesMatchCache]))

\* the species/match response for the full name arrives, part_011:199-211 and
\* the catch of 232-235
ExactMatchResponse(m, resp) ==
    /\ matchers[m].pc = "match"
    /\ LET st == Running(m)
           normalizedName == Trim(resolveSynonym(FrameName(st.matcher)))
           data == [usageKey |-> resp.usageKey, confidence |-> resp.confidence]
       IN  Becomes(m,
              IF resp.error
              THEN FrameReturns([st EXCEPT !.matcher.clean = FALSE], NullMatch)
              ELSE IF Truthy(resp.usageKey)
              THEN FrameReturns([st EXCEPT !.cache = Put(@, CacheKey(st.matcher), data)], data)
              ELSE IF Len(Split(normalizedName)) > 1
              THEN [st EXCEPT !.matcher.pc = "fuzzy"]
              ELSE FrameReturns(st, NullMatch))

\* the species/match response for genus and first epithet arrives,
\* part_011:213-231
FuzzyMatchResponse(m, resp) ==
    /\ matchers[m].pc = "fuzzy"
    /\ LET st == Running(m)
           fuzzyData == [usageKey |-> resp.usageKey, confidence |-> Min(resp.confidence, 80)]
       IN  Becomes(m,
              IF resp.error
              THEN FrameReturns([st EXCEPT !.matcher.clean = FALSE], NullMatch)
              ELSE IF Truthy(resp.usageKey)
              THEN FrameReturns([matcher |-> [st.matcher EXCEPT !.reduced = TRUE],
                                 cache |-> Put(st.cache, CacheKey(st.matcher), fuzzyData)],
                                fuzzyData)
              ELSE FrameReturns(st, NullMatch))

\* clearGBIFCaches, part_011:489-493: the module-level Maps only
ClearGBIFCaches ==
    /\ speciesMatchCache' = EmptyObj
    /\ occurrencesCache' = EmptyObj
    /\ UNCHANGED <<cacheVars, matchers, fetchers>>

(***************************************************************************)
(* fetchGBIFData.  The first client (src/unnamed/part_011:11-73) sends     *)
(* through an axios instance whose response interceptor retries; axios     *)
(* rejects a response whose status is outside 2xx, so the interceptor sees *)
(* HTTP errors as well as network errors and timeouts.  The second client  *)
(* (part_011:730-806) uses fetch: the local API route, then the remote API *)
(* directly, then a CORS proxy.  A step is the settling of one attempt or  *)
(* the end of one backoff wait.                                            *)
(***************************************************************************)
MaxRequests == 1

Requests == 1..MaxRequests

\* retry and retryDelay of the config built at part_011:61-65
InitialRetry == 3

InitialRetryDelay == 1000

\* how an attempt through axios ends
AxiosOutcomes == {"ok", "http", "network", "timeout"}

\* how a fetch ends: response.ok, a response with another status, or a
\* rejection whose message is the given one
FetchOutcomes == {"ok", "http", "Network Error", "CORS", "Failed to fetch"}

\* a call: log holds how each finished attempt ended, waits the delays of the
\* backoff timers that were set
IdleRequest ==
    [variant |-> "axios", pc |-> "idle", retry |-> 0, retryDelay |-> 0,
     log |-> <<>>, waits |-> <<>>]

\* attempts made so far, the one under way included
Attempts(q) == Len(q.log) + (IF q.pc \in {"sent", "local", "direct", "proxy"} THEN 1 ELSE 0)

\* fetchGBIFData(endpoint, params) up to its first await, part_011:55-67 and
\* 730-741
FetchGBIFDataCall(q, variant) ==
    /\ requests[q].pc \in {"idle", "resolved", "rejected"}
    /\ requests' = [requests EXCEPT ![q] =
           IF variant = "axios"
           THEN [IdleRequest EXCEPT !.pc = "sent", !.retry = InitialRetry,
                                    !.retryDelay = InitialRetryDelay]
           ELSE [IdleRequest EXCEPT !.variant = "fetch", !.pc = "local"]]

Backoff_Constant(retryDelay) == IF retryDelay # 0 THEN retryDelay ELSE 1000

\* (config.retryDelay || 1000) * 2, part_011:32
Backoff(retryDelay) == (IF retryDelay # 0 THEN retryDelay ELSE 1000) * 2

\* an attempt of the first client settles: the response, or the error
\* handler of part_011:18-36 up to its await
AxiosSettles(q, outcome) ==
    /\ requests[q].variant = "axios" /\ requests[q].pc = "sent"
    /\ LET r == [requests[q] EXCEPT !.log = Append(@, outcome)]
       IN  requests' = [requests EXCEPT ![q] =
               IF outcome = "ok" THEN [r EXCEPT !.pc = "resolved"]
               ELSE IF r.retry = 0 THEN [r EXCEPT !.pc = "rejected"]
               ELSE IF r.retry - 1 = 0 THEN [r EXCEPT !.pc = "rejected", !.retry = 0]
               ELSE [r EXCEPT !.pc = "backoff", !.retry = @ - 1,
                              !.waits = Append(@, IF r.retryDelay # 0 THEN r.retryDelay
                                                  ELSE 1000),
                              !.retryDelay = Backoff(@)]]

\* the backoff timer fires: gbifAxios(config), part_011:34-35
BackoffElapses(q) ==
    /\ requests[q].variant = "axios" /\ requests[q].pc = "backoff"
    /\ requests' = [requests EXCEPT ![q].pc = "sent"]

\* directApiError is one the proxy is tried for, part_011:775-776
ProxyWorthy(outcome) == outcome \in {"CORS", "Network Error"}

\* a fetch of the second client settles, part_011:741-804
FetchSettles(q, outcome) ==
    /\ requests[q].variant = "fetch" /\ requests[q].pc \in {"local", "direct", "proxy"}
    /\ LET r == [requests[q] EXCEPT !.log = Append(@, outcome)]
       IN  requests' = [requests EXCEPT ![q] =
               IF outcome = "ok" THEN [r EXCEPT !.pc = "resolved"]
               ELSE IF r.pc = "local" THEN [r EXCEPT !.pc = "direct"]
               ELSE IF r.pc = "direct" /\ ProxyWorthy(outcome) THEN [r EXCEPT !.pc = "proxy"]
               ELSE [r EXCEPT !.pc = "rejected"]]

(***************************************************************************)
(* AlgaeMap, src/components/algae-map.tsx:75-166, over the client with     *)
(* GBIFCache.  The names of a load fit one batch (batchSize 5), and a load *)
(* starts when the pipelines of the one before have settled.  The lists    *)
(* the component publishes are kept as sets.                               *)
(***************************************************************************)
\* a name the remote resolves and has occurrences for, a name of COMMON_TAXA
\* without occurrences, and a name the remote does not know
AlgaeNames == {"Ulva intestinalis", "Ulva lactuca", "Nonexistent species"}

AlgaeNameSets == {{}, {"Ulva intestinalis"}, AlgaeNames}

NoLoad == [names |-> {}, pipes |-> EmptyObj, successfulSpecies |-> {}, newOccurrences |-> {}]

\* what a pipeline of algae-map.tsx does next: `store` tells whether it sets
\* gbifCache[name] to `entry`
MapSuccess(entry, store) ==
    [kind |-> "success", pc |-> "", error |-> "", entry |-> entry, store |-> store]

MapFailure(error, entry, store) ==
    [kind |-> "failed", pc |-> "", error |-> error, entry |-> entry, store |-> store]

MapAwait(pc, taxonKey) ==
    [kind |-> "await", pc |-> pc, error |-> "",
     entry |-> [taxonKey |-> JsNum(taxonKey), occurrences |-> <<>>], store |-> FALSE]

NoEntry == [taxonKey |-> JsNull, occurrences |-> <<>>]

\* from the return of fetchGBIFOccurrences, lines 121-133
MapAfterOccurrences(taxonKey, occurrences) ==
    IF Len(occurrences) > 0
    THEN MapSuccess([taxonKey |-> JsNum(taxonKey), occurrences |-> occurrences], TRUE)
    ELSE MapFailure("No occurrences found",
                    [taxonKey |-> JsNum(taxonKey), occurrences |-> <<>>], TRUE)

\* from the return of fetchTaxonKey to the next await on the network, lines
\* 119-139 with part_011:338-344
MapAfterTaxonKey(c, taxonKey) ==
    IF ~Truthy(taxonKey)
    THEN MapFailure("Species not found in GBIF", NoEntry, TRUE)
    ELSE LET got == GetOccurrences(c, taxonKey.val)
         IN  IF got.threw THEN MapFailure("Error fetching data", NoEntry, FALSE)
             ELSE IF got.found THEN MapAfterOccurrences(taxonKey.val, got.list)
             ELSE MapAwait("pages", taxonKey.val)

\* the pipeline of one name up to its first await on the network, lines
\* 103-119 with part_011:285-299
MapProcess(known, c, name) ==
    IF name \in DOMAIN known
    THEN IF Truthy(known[name].taxonKey) /\ Len(known[name].occurrences) > 0
         THEN MapSuccess(known[name], FALSE)
         ELSE MapFailure("No occurrences found", NoEntry, FALSE)
    ELSE IF name \in DOMAIN COMMON_TAXA THEN MapAfterTaxonKey(c, JsNum(COMMON_TAXA[name]))
    ELSE IF GetTaxonKey(c, name).threw THEN MapFailure("Error fetching data", NoEntry, FALSE)
    ELSE IF HasCachedKey(c, name) THEN MapAfterTaxonKey(c, CachedKey(c, name))
    ELSE MapAwait("match", 0)

\* the pushes, the failure published and the cache entry of one pipeline,
\* lines 108-115, 122-138, 144
MapSettle(st, name, o) ==
    LET stored == IF o.store THEN Put(st.known, name, o.entry) ELSE st.known
    IN  CASE o.kind = "success" ->
                [st EXCEPT !.known = stored,
                           !.run.successfulSpecies = @ \cup {name},
                           !.run.newOccurrences = @ \cup Range(o.entry.occurrences)]
          [] o.kind = "failed" ->
                [st EXCEPT !.known = stored,
                           !.state.failedSpecies = @ \cup {[name |-> name, error |-> o.error]}]
          [] o.kind = "await" ->
                [st EXCEPT !.run.pipes =
                               Put(@, name, [pc |-> o.pc, taxonKey |-> o.entry.taxonKey.val])]

\* batch.map(...) over the names that are left
RECURSIVE MapBatch(_, _, _)
MapBatch(st, c, names) ==
    IF names = {} THEN st
    ELSE LET name == CHOOSE n \in names : TRUE
         IN  MapBatch(MapSettle(st, name, MapProcess(st.known, c, name)), c, names \ {name})

\* lines 150-152, once Promise.all of the last batch has settled
MapFinish(st) ==
    IF DOMAIN st.run.pipes = {}
    THEN [st EXCEPT !.state.speciesWithGBIFData = st.run.successfulSpecies,
                    !.state.occurrences = st.run.newOccurrences,
                    !.state.loading = FALSE]
    ELSE st

MapCommit(st) ==
    /\ mapCache' = st.known
    /\ mapRun' = st.run
    /\ mapState' = st.state

\* speciesNames became `names` and the timer of the debounced function fired,
\* lines 76-153
AlgaeLoad(names) ==
    /\ DOMAIN mapRun.pipes = {}
    /\ LET reset == [mapState EXCEPT !.loading = TRUE, !.failedSpecies = {},
                                     !.speciesWithGBIFData = {}]
           st == [known |-> mapCache, run |-> [NoLoad EXCEPT !.names = names], state |-> reset]
       IN  IF names = {}
           THEN MapCommit([st EXCEPT !.state.loading = FALSE])
           ELSE MapCommit(MapFinish(MapBatch(st, cache, names)))
    /\ UNCHANGED cacheVars

\* the pipeline of `name` goes on with outcome o
MapContinue(name, o) ==
    MapCommit(MapFinish(MapSettle([known |-> mapCache,
                                   run |-> [mapRun EXCEPT !.pipes = Drop(@, name)],
                                   state |-> mapState],
                                  name, o)))

MapWaits(name, pc) == name \in DOMAIN mapRun.pipes /\ mapRun.pipes[name].pc = pc

\* species/match settles for a pipeline of AlgaeMap, part_011:299-304, 323-326
AlgaeMatchSettled(name, err) ==
    /\ MapWaits(name, "match")
    /\ LET resp == MatchAnswer(name)
       IN  IF err
           THEN /\ MapContinue(name, MapAfterTaxonKey(cache, JsNull))
                /\ UNCHANGED cacheVars
           ELSE IF Truthy(resp.usageKey)
           THEN /\ StoreTaxonKey(name, resp.usageKey)
                /\ MapContinue(name, MapAfterTaxonKey(cache', resp.usageKey))
                /\ UNCHANGED lastOp
           ELSE /\ MapContinue(name, MapAwait("search", 0))
                /\ UNCHANGED cacheVars

\* species/search settles for a pipeline of AlgaeMap, part_011:306-326
AlgaeSearchSettled(name, err) ==
    /\ MapWaits(name, "search")
    /\ LET resp == SearchAnswer(name)
           key == OrElse(resp.key, resp.usageKey)
       IN  IF err
           THEN /\ MapContinue(name, MapAfterTaxonKey(cache, JsNull))
                /\ UNCHANGED cacheVars
           ELSE IF ~resp.empty /\ Truthy(key)
           THEN /\ StoreTaxonKey(name, key)
                /\ MapContinue(name, MapAfterTaxonKey(cache', key))
                /\ UNCHANGED lastOp
           ELSE /\ StoreTaxonKey(name, JsNull)
                /\ MapContinue(name, MapAfterTaxonKey(cache', JsNull))
                /\ UNCHANGED lastOp

\* the page of occurrence/search settles for a pipeline of AlgaeMap,
\* part_011:378-415
AlgaePagesSettled(name, err) ==
    /\ MapWaits(name, "pages")
    /\ LET taxonKey == mapRun.pipes[name].taxonKey
           finalResults == Slice(CollectPages(<<PageAnswer(taxonKey)>>, 1, TRUE), DefaultLimit)
       IN  IF err
           THEN /\ MapContinue(name, MapAfterOccurrences(taxonKey, <<>>))
                /\ UNCHANGED cacheVars
           ELSE /\ StoreOccurrences(taxonKey, finalResults)
                /\ MapContinue(name, MapAfterOccurrences(taxonKey, finalResults))
                /\ UNCHANGED lastOp

(***************************************************************************)
(* resolveSynonym applied to its own result, and the nesting of            *)
(* matchSpeciesName calls it gives rise to (part_011:119-122, 164-177).    *)
(***************************************************************************)
MaxApplications == 2

MaxFrames == 3

\* the names given to resolveSynonym: every synonym and every accepted name
\* of the table, names with blanks around them, and names the table lacks
SynonymInputs ==
    {SynonymEntries[i][1] : i \in DOMAIN SynonymEntries}
        \cup {SynonymEntries[i][2] : i \in DOMAIN SynonymEntries}
        \cup {"Fucus vesiculosus ", " Fucus sp.", "Laminaria saccharina ", " Palmaria palmata ",
              "Palmaria palmata", "Nonexistent species"}

Last(l) == l[Len(l)]

\* resolveSynonym is applied to the name, then to what it returned
ResolveSynonymCall ==
    /\ Len(resolved) < MaxApplications
    /\ resolved' = Append(resolved, resolveSynonym(IF resolved = <<>> THEN frames[1]
                                                    ELSE Last(resolved)))
    /\ UNCHANGED frames

\* matchSpeciesName(name) calls itself for resolvedName when the two differ,
\* lines 131 and 164-167 (the returns of lines 135-162 may come first)
NestedMatchCall ==
    /\ Len(frames) < MaxFrames
    /\ resolveSynonym(Last(frames)) # Last(frames)
    /\ frames' = Append(frames, resolveSynonym(Last(frames)))
    /\ UNCHANGED resolved

(***************************************************************************)
(* The specifications.  Each one starts the other components idle and      *)
(* leaves their variables alone.                                           *)
(***************************************************************************)
vars ==
    <<cacheVars, resolveVars, fetchVars, providerVars, matchVars, transportVars, algaeVars,
      synonymVars>>

CacheFresh ==
    /\ lastOp = [op |-> "constructor", threw |-> FALSE, wrote |-> FALSE]
    /\ writeFailures = 0

\* a store that accepts every write: no write failure is left to happen
CacheReliable ==
    /\ lastOp = [op |-> "constructor", threw |-> FALSE, wrote |-> FALSE]
    /\ writeFailures = MaxWriteFailures

ResolveIdle ==
    /\ callers = [c \in Callers |-> IdleCaller]
    /\ nullReturned = {}
    /\ lastDone = [n \in ResolveNames |-> NoCall]

FetchIdle ==
    /\ fetchers = [f \in Fetchers |-> IdleFetcher]
    /\ occurrencesCache = EmptyObj

TransportIdle == requests = [q \in Requests |-> IdleRequest]

\* no call of matchSpeciesName or resolveSynonym under way
SynonymIdle ==
    /\ frames = <<>>
    /\ resolved = <<>>

\* AlgaeMap rendered, its effect not yet run: useState of lines 33-34
AlgaeIdle ==
    /\ mapCache = EmptyObj
    /\ mapRun = NoLoad
    /\ mapState = [loading |-> TRUE, failedSpecies |-> {}, speciesWithGBIFData |-> {},
                   occurrences |-> {}]

MatchIdle ==
    /\ matchers = [m \in Matchers |-> IdleMatcher]
    /\ speciesMatchCache = EmptyObj

\* the provider not rendered
ProviderIdle ==
    /\ speciesNames = <<>>
    /\ isMountedRef = FALSE
    /\ debouncePending = FALSE
    /\ timers = {}
    /\ delivered = FALSE
    /\ abortControllerRef = 0
    /\ aborted = {}
    /\ runs = <<>>
    /\ providerCache = EmptyObj
    /\ published = [occurrences |-> <<>>, speciesWithGBIFData |-> <<>>, failedSpecies |-> <<>>,
                    isLoading |-> TRUE, error |-> JsNull]
    /\ transportErrors = 0

InitialItems == {NoItem, Garbage, JsonText(NoMaps), JsonText(OnlyTaxonKeys), JsonText(EmptyCache)}

InitCache ==
    /\ storage \in InitialItems
    /\ cache = LoadFromStorage(storage)
    /\ CacheFresh
    /\ ResolveIdle
    /\ FetchIdle
    /\ ProviderIdle
    /\ MatchIdle
    /\ TransportIdle
    /\ AlgaeIdle
    /\ SynonymIdle

NextCache ==
    \/ SetTaxonKey /\ UNCHANGED <<resolveVars, fetchVars, providerVars, matchVars, transportVars, algaeVars, synonymVars>>
    \/ SetOccurrences /\ UNCHANGED <<resolveVars, fetchVars, providerVars, matchVars, transportVars, algaeVars, synonymVars>>
    \/ SetSpeciesDetails /\ UNCHANGED <<resolveVars, fetchVars, providerVars, matchVars, transportVars, algaeVars, synonymVars>>
    \/ SetSpeciesMatches /\ UNCHANGED <<resolveVars, fetchVars, providerVars, matchVars, transportVars, algaeVars, synonymVars>>
    \/ GetCall /\ UNCHANGED <<resolveVars, fetchVars, providerVars, matchVars, transportVars, algaeVars, synonymVars>>
    \/ ClearCache /\ UNCHANGED <<resolveVars, fetchVars, providerVars, matchVars, transportVars, algaeVars, synonymVars>>
    \/ BeforeUnload /\ UNCHANGED <<resolveVars, fetchVars, providerVars, matchVars, transportVars, algaeVars, synonymVars>>
    \/ Construct /\ UNCHANGED <<resolveVars, fetchVars, providerVars, matchVars, transportVars, algaeVars, synonymVars>>

SpecCache == InitCache /\ [][NextCache]_vars

InitResolve ==
    /\ storage \in {NoItem, JsonText(NoMaps)}
    /\ cache = LoadFromStorage(storage)
    /\ CacheReliable
    /\ ResolveIdle
    /\ FetchIdle
    /\ ProviderIdle
    /\ MatchIdle
    /\ TransportIdle
    /\ AlgaeIdle
    /\ SynonymIdle

NextResolve ==
    \/ \E c \in Callers, name \in ResolveNames :
          FetchTaxonKeyCall(c, name) /\ UNCHANGED <<fetchVars, providerVars, matchVars, transportVars, algaeVars, synonymVars>>
    \/ \E c \in Callers, resp \in MatchResponses :
          MatchResponse(c, resp) /\ UNCHANGED <<fetchVars, providerVars, matchVars, transportVars, algaeVars, synonymVars>>
    \/ \E c \in Callers, resp \in SearchResponses :
          SearchResponse(c, resp) /\ UNCHANGED <<fetchVars, providerVars, matchVars, transportVars, algaeVars, synonymVars>>

SpecResolve == InitResolve /\ [][NextResolve]_vars

InitFetch ==
    /\ storage \in {NoItem, JsonText(NoMaps)}
    /\ cache = LoadFromStorage(storage)
    /\ CacheFresh
    /\ ResolveIdle
    /\ FetchIdle
    /\ ProviderIdle
    /\ MatchIdle
    /\ TransportIdle
    /\ AlgaeIdle
    /\ SynonymIdle

NextFetch ==
    \/ \E f \in Fetchers, variant \in {"cache", "map"}, k \in {0} \cup TaxonKeys,
           limit \in Limits, hasImages \in BOOLEAN :
          FetchOccurrencesCall(f, variant, k, limit, hasImages) /\ UNCHANGED <<resolveVars, providerVars, matchVars, transportVars, algaeVars, synonymVars>>
    \/ \E f \in Fetchers, pages \in SeqsUpTo(PageResponses, 2) :
          PagesResponse(f, pages) /\ UNCHANGED <<resolveVars, providerVars, matchVars, transportVars, algaeVars, synonymVars>>
    \/ \E f \in Fetchers, resp \in PageResponses :
          SearchOccurrencesResponse(f, resp) /\ UNCHANGED <<resolveVars, providerVars, matchVars, transportVars, algaeVars, synonymVars>>
    \/ ClearGBIFCaches /\ UNCHANGED <<resolveVars, providerVars, transportVars, algaeVars, synonymVars>>

SpecFetch == InitFetch /\ [][NextFetch]_vars

\* the first render and the first run of the effect, lines 29-33 and 144-147
Init ==
    /\ storage \in {NoItem, JsonText(NoMaps)}
    /\ cache = LoadFromStorage(storage)
    /\ CacheReliable
    /\ ResolveIdle
    /\ FetchIdle
    /\ speciesNames \in NameLists
    /\ isMountedRef = TRUE
    /\ debouncePending = TRUE
    /\ timers = {Armed({}, speciesNames)}
    /\ delivered = FALSE
    /\ abortControllerRef = 0
    /\ aborted = {}
    /\ runs = <<>>
    /\ providerCache = EmptyObj
    /\ published = [occurrences |-> <<>>, speciesWithGBIFData |-> <<>>, failedSpecies |-> <<>>,
                    isLoading |-> TRUE, error |-> JsNull]
    /\ transportErrors = 0
    /\ MatchIdle
    /\ TransportIdle
    /\ AlgaeIdle
    /\ SynonymIdle

Next ==
    \/ \E names \in NameLists : InputChange(names) /\ UNCHANGED <<resolveVars, fetchVars, matchVars, transportVars, algaeVars, synonymVars>>
    \/ LoadOccurrences /\ UNCHANGED <<resolveVars, fetchVars, matchVars, transportVars, algaeVars, synonymVars>>
    \/ \E r \in 1..MaxRuns, name \in Range(ProviderNames), err \in BOOLEAN :
          MatchSettled(r, name, err) /\ UNCHANGED <<resolveVars, fetchVars, matchVars, transportVars, algaeVars, synonymVars>>
    \/ \E r \in 1..MaxRuns, name \in Range(ProviderNames), err \in BOOLEAN :
          SearchSettled(r, name, err) /\ UNCHANGED <<resolveVars, fetchVars, matchVars, transportVars, algaeVars, synonymVars>>
    \/ \E r \in 1..MaxRuns, name \in Range(ProviderNames), err \in BOOLEAN :
          PagesSettled(r, name, err) /\ UNCHANGED <<resolveVars, fetchVars, matchVars, transportVars, algaeVars, synonymVars>>
    \/ Unmount /\ UNCHANGED <<resolveVars, fetchVars, matchVars, transportVars, algaeVars, synonymVars>>

Spec == Init /\ [][Next]_vars

InitMatch ==
    /\ storage \in {NoItem, JsonText(NoMaps)}
    /\ cache = LoadFromStorage(storage)
    /\ CacheReliable
    /\ ResolveIdle
    /\ FetchIdle
    /\ ProviderIdle
    /\ MatchIdle
    /\ TransportIdle
    /\ AlgaeIdle
    /\ SynonymIdle

\* a fetchTaxonKey call for a name of COMMON_TAXA returns within its step, so
\* one caller making call after call shows every such call
NextMatch ==
    \/ \E m \in Matchers, name \in MatchNames :
          MatchSpeciesNameCall(m, name) /\ UNCHANGED <<cacheVars, resolveVars, fetchVars, providerVars, transportVars, algaeVars, synonymVars>>
    \/ \E m \in Matchers, resp \in SpeciesMatchResponses :
          ExactMatchResponse(m, resp) /\ UNCHANGED <<cacheVars, resolveVars, fetchVars, providerVars, transportVars, algaeVars, synonymVars>>
    \/ \E m \in Matchers, resp \in SpeciesMatchResponses :
          FuzzyMatchResponse(m, resp) /\ UNCHANGED <<cacheVars, resolveVars, fetchVars, providerVars, transportVars, algaeVars, synonymVars>>
    \/ \E name \in ResolveNames \cap DOMAIN COMMON_TAXA :
          FetchTaxonKeyCall(1, name) /\ UNCHANGED <<fetchVars, providerVars, matchVars, transportVars, algaeVars, synonymVars>>
    \/ ClearGBIFCaches /\ UNCHANGED <<resolveVars, providerVars, transportVars, algaeVars, synonymVars>>

SpecMatch == InitMatch /\ [][NextMatch]_vars

InitTransport ==
    /\ storage = NoItem
    /\ cache = LoadFromStorage(storage)
    /\ CacheReliable
    /\ ResolveIdle
    /\ FetchIdle
    /\ ProviderIdle
    /\ MatchIdle
    /\ TransportIdle
    /\ AlgaeIdle
    /\ SynonymIdle

NextTransport ==
    \/ \E q \in Requests, variant \in {"axios", "fetch"} :
          FetchGBIFDataCall(q, variant)
             /\ UNCHANGED <<cacheVars, resolveVars, fetchVars, providerVars, matchVars, algaeVars, synonymVars>>
    \/ \E q \in Requests, outcome \in AxiosOutcomes :
          AxiosSettles(q, outcome)
             /\ UNCHANGED <<cacheVars, resolveVars, fetchVars, providerVars, matchVars, algaeVars, synonymVars>>
    \/ \E q \in Requests :
          BackoffElapses(q)
             /\ UNCHANGED <<cacheVars, resolveVars, fetchVars, providerVars, matchVars, algaeVars, synonymVars>>
    \/ \E q \in Requests, outcome \in FetchOutcomes :
          FetchSettles(q, outcome)
             /\ UNCHANGED <<cacheVars, resolveVars, fetchVars, providerVars, matchVars, algaeVars, synonymVars>>

SpecTransport == InitTransport /\ [][NextTransport]_vars

\* The provider under the scheduling of the browser.  The event loop runs a
\* timer that is due, so a pending timer of a debounced function fires unless
\* it is cancelled first; a request settles, with a response or with an error
\* (the instance has a timeout of 10000 ms and the interceptor retries a
\* bounded number of times, part_011:11-36).  Input changes and the unmount
\* are the user's and come or not; an input change comes only while the run
\* its timer starts is within MaxRuns.
NotModelled == UNCHANGED <<resolveVars, fetchVars, matchVars, transportVars, algaeVars, synonymVars>>

TimerIsDue == LoadOccurrences /\ NotModelled

RequestSettles ==
    \E r \in 1..MaxRuns, name \in Range(ProviderNames), err \in BOOLEAN :
        /\ \/ MatchSettled(r, name, err)
           \/ SearchSettled(r, name, err)
           \/ PagesSettled(r, name, err)
        /\ NotModelled

NextFair ==
    \/ \E names \in NameLists : Len(runs) < MaxRuns /\ InputChange(names) /\ NotModelled
    \/ TimerIsDue
    \/ RequestSettles
    \/ Unmount /\ NotModelled

\* The steps of TimerIsDue and of RequestSettles, told by what they do to
\* timers and to delivered.  A step of NextFair takes a timer out of timers
\* and leaves isMountedRef alone exactly when it is a step of TimerIsDue, and
\* one is possible exactly when a timer is pending whose run is within
\* MaxRuns; it flips delivered exactly when it is a step of RequestSettles,
\* and one is possible exactly when a pipeline awaits a response.
PendingTimerFires ==
    /\ \E t \in timers :
          /\ timers' = timers \ {t}
          /\ (isMountedRef /\ Len(t.names) > 0) => Len(runs) < MaxRuns
    /\ isMountedRef' = isMountedRef

AwaitedResponseComes ==
    /\ \E r \in DOMAIN runs : DOMAIN runs[r].pipes # {}
    /\ delivered' = ~delivered

SpecFair ==
    /\ Init
    /\ [][NextFair]_vars
    /\ WF_timers(PendingTimerFires)
    /\ WF_delivered(AwaitedResponseComes)

\* a name is handed to matchSpeciesName
InitSynonym ==
    /\ storage = NoItem
    /\ cache = LoadFromStorage(storage)
    /\ CacheReliable
    /\ ResolveIdle
    /\ FetchIdle
    /\ ProviderIdle
    /\ MatchIdle
    /\ TransportIdle
    /\ AlgaeIdle
    /\ \E name \in SynonymInputs : frames = <<name>>
    /\ resolved = <<>>

NextSynonym ==
    \/ ResolveSynonymCall
          /\ UNCHANGED <<cacheVars, resolveVars, fetchVars, providerVars, matchVars, transportVars,
                         algaeVars>>
    \/ NestedMatchCall
          /\ UNCHANGED <<cacheVars, resolveVars, fetchVars, providerVars, matchVars, transportVars,
                         algaeVars>>

SpecSynonym == InitSynonym /\ [][NextSynonym]_vars

\* AlgaeMap rendered over a cache read from a store that accepts every write
InitAlgaeMap ==
    /\ storage \in {NoItem, JsonText(NoMaps)}
    /\ cache = LoadFromStorage(storage)
    /\ CacheReliable
    /\ ResolveIdle
    /\ FetchIdle
    /\ ProviderIdle
    /\ MatchIdle
    /\ TransportIdle
    /\ AlgaeIdle
    /\ SynonymIdle

NextAlgaeMap ==
    \/ \E names \in AlgaeNameSets :
          AlgaeLoad(names)
             /\ UNCHANGED <<resolveVars, fetchVars, providerVars, matchVars, transportVars, synonymVars>>
    \/ \E name \in AlgaeNames, err \in BOOLEAN :
          AlgaeMatchSettled(name, err)
             /\ UNCHANGED <<resolveVars, fetchVars, providerVars, matchVars, transportVars, synonymVars>>
    \/ \E name \in AlgaeNames, err \in BOOLEAN :
          AlgaeSearchSettled(name, err)
             /\ UNCHANGED <<resolveVars, fetchVars, providerVars, matchVars, transportVars, synonymVars>>
    \/ \E name \in AlgaeNames, err \in BOOLEAN :
          AlgaePagesSettled(name, err)
             /\ UNCHANGED <<resolveVars, fetchVars, providerVars, matchVars, transportVars, synonymVars>>

SpecAlgaeMap == InitAlgaeMap /\ [][NextAlgaeMap]_vars

(***************************************************************************)
(* Claims about GBIFCache, checked under SpecCache.                        *)
(***************************************************************************)
SetterOps == {"setTaxonKey", "setOccurrences", "setSpeciesDetails", "setSpeciesMatches"}

SetterReturned(op) == op.op \in SetterOps /\ ~op.threw

\* every property of every map of c is still a property of d
KeepsEntries(c, d) ==
    /\ DOMAIN c.taxonKeys \subseteq DOMAIN d.taxonKeys
    /\ DOMAIN c.occurrences \subseteq DOMAIN d.occurrences
    /\ DOMAIN c.speciesDetails \subseteq DOMAIN d.speciesDetails
    /\ DOMAIN c.speciesMatches \subseteq DOMAIN d.speciesMatches

\* what a reader of an occurrence list sees: a missing eventDate reads as undefined
ReadOccList(l) == [i \in 1..Len(l) |-> [l[i] EXCEPT !.eventDate = ReadProp(l[i].eventDate)]]

ReadOccurrences(c, k) ==
    LET r == GetOccurrences(c, k) IN [r EXCEPT !.list = ReadOccList(r.list)]

\* getTaxonKey and getOccurrences answer alike on c and d, for every name and id
SameReads(c, d) ==
    /\ \A name \in CacheNames : GetTaxonKey(c, name) = GetTaxonKey(d, name)
    /\ \A k \in TaxonKeys : ReadOccurrences(c, k) = ReadOccurrences(d, k)

\* C6 as stated: after any setter returns, the stored blob is the serialization
\* of the whole in-memory structure.
C6_BlobAlwaysCurrent == SetterReturned(lastOp) => storage = Stringify(cache)

\* C6 amended: a setter that returns has either written the serialization of
\* the whole in-memory structure (setItem succeeded) or left the stored blob as
\* it was (setItem threw, caught in saveToStorage); the in-memory structure
\* keeps every entry it had before the call.
C6_WriteThroughOrKept ==
    [][SetterReturned(lastOp') =>
          /\ IF lastOp'.wrote THEN storage' = Stringify(cache') ELSE storage' = storage
          /\ KeepsEntries(cache, cache')]_vars

\* a setter has written a blob that holds an entry of each of two maps
C6_Witness ==
    /\ SetterReturned(lastOp) /\ lastOp.wrote
    /\ storage = Stringify(cache)
    /\ DOMAIN cache.taxonKeys = CacheNames
    /\ DOMAIN cache.occurrences # {}

C8_RecoversFromBadBlob == cache.present = MapNames /\ ~lastOp.threw

(***************************************************************************)
(* Claims about fetchTaxonKey, checked under SpecResolve.                   *)
(***************************************************************************)
\* C3 as stated: a fetchTaxonKey call that starts after a call for the same
\* name has returned null issues no network request and returns null.
C3_NullIsSticky ==
    \A c \in Callers :
        callers[c].afterNull =>
            /\ callers[c].calls = 0
            /\ callers[c].pc = "done" => callers[c].result = JsNull

C17_OneMatchRequestPerName ==
    \A c1, c2 \in Callers :
        (c1 # c2 /\ callers[c1].pc = "match" /\ callers[c2].pc = "match")
            => callers[c1].name # callers[c2].name

(***************************************************************************)
(* Claims about fetchGBIFOccurrences, checked under SpecFetch.              *)
(***************************************************************************)
HasCoordinates(o) ==
    /\ ReadProp(o.decimalLatitude).type = "number"
    /\ ReadProp(o.decimalLongitude).type = "number"

AllHaveCoordinates(l) == \A i \in 1..Len(l) : HasCoordinates(l[i])

\* C5 as stated: every record of every list fetchGBIFOccurrences returns, built
\* from a response or served from a cache, has a numeric latitude and longitude.
C5_CoordinatesDefined ==
    \A f \in Fetchers : fetchers[f].pc = "done" => AllHaveCoordinates(fetchers[f].result)

(***************************************************************************)
(* Claims about MapDataProvider, checked under Spec.                       *)
(***************************************************************************)
InFlight(r) == Cardinality(DOMAIN runs[r].pipes)

RECURSIVE SumInFlight(_)
SumInFlight(n) == IF n = 0 THEN 0 ELSE InFlight(n) + SumInFlight(n - 1)

Aggregate(run) ==
    [occurrences |-> run.newOccurrences, speciesWithGBIFData |-> run.successfulSpecies,
     failedSpecies |-> run.failedSpeciesList]

Shown == [f \in {"occurrences", "speciesWithGBIFData", "failedSpecies"} |-> published[f]]

NothingShown ==
    [occurrences |-> <<>>, speciesWithGBIFData |-> <<>>, failedSpecies |-> <<>>]

\* C1 as stated: a run never publishes its aggregate once the set of names
\* has changed from the one it was started with.
C1_SupersededNeverPublishes ==
    \A r \in DOMAIN runs : runs[r].published # "stale"

\* C2 as stated: at most concurrencyLimit pipelines await a response at the
\* same time, over all runs.
C2_AtMostLimitInFlight == SumInFlight(Len(runs)) <= concurrencyLimit

\* C9 as stated: a name one of whose requests failed at transport level is in
\* the run's failure list with the reason "Error fetching data".
C9_TransportFailureReason ==
    \A r \in DOMAIN runs : \A name \in runs[r].transport :
        [name |-> name, error |-> "Error fetching data"] \in Range(runs[r].failedSpeciesList)

\* C10 as stated: the three published values are those of before the first
\* publication or together the aggregate of one completed run.
C10_PublishedTogether ==
    \/ Shown = NothingShown
    \/ \E r \in DOMAIN runs : runs[r].status = "completed" /\ Shown = Aggregate(runs[r])

\* C11: once the provider is unmounted no step changes the published state,
\* starts a run or leaves the debounce timer pending, whatever responses
\* arrive.
C11_NothingAfterUnmount ==
    [][~isMountedRef =>
          /\ published' = published
          /\ Len(runs') = Len(runs)
          /\ ~debouncePending']_vars

\* a run whose last response arrived after the unmount: it ended without
\* publishing
C11_Witness ==
    /\ ~isMountedRef
    /\ \E r \in DOMAIN runs :
          /\ runs[r].status = "completed"
          /\ runs[r].published = "no"
          /\ Len(runs[r].successfulSpecies) > 0

(***************************************************************************)
(* Claims about matchSpeciesName, checked under SpecMatch, and about       *)
(* clearGBIFCaches, checked under SpecFetch.                               *)
(***************************************************************************)
HasSynonym(name) == Trim(name) \in DOMAIN TAXONOMIC_SYNONYMS

\* the call of m has returned in this step
MatchReturns(m) == matchers'[m] # matchers[m] /\ matchers'[m].pc = "done"

\* what matchSpeciesName(name) would return on the cache mc without a request
Direct(mc, name) == Enter([matcher |-> [IdleMatcher EXCEPT !.name = name], cache |-> mc]).matcher

\* C12 as stated: when matchSpeciesName returns for a name that has a synonym
\* entry, the match cache holds an entry keyed by that name, and resolving
\* the synonym target then yields the same identifier.
C12_SynonymCached ==
    [][\A m \in Matchers :
          (MatchReturns(m) /\ HasSynonym(matchers'[m].name)) =>
              /\ ToLowerCase(Trim(matchers'[m].name)) \in DOMAIN speciesMatchCache'
              /\ LET target == Direct(speciesMatchCache', resolveSynonym(matchers'[m].name))
                 IN  target.pc = "done" =>
                         target.result.usageKey = matchers'[m].result.usageKey]_vars

\* C13: a matchSpeciesName or fetchTaxonKey call for a name of COMMON_TAXA has
\* returned within the step that made it, with the identifier of the table
\* and without a network request, whatever the caches hold (a name of the
\* table is never found waiting for a response).
C13_StaticFastPath ==
    /\ \A m \in Matchers :
          (matchers[m].name \in DOMAIN COMMON_TAXA /\ matchers[m].pc # "idle") =>
              /\ matchers[m].pc = "done"
              /\ matchers[m].result = CommonMatch(matchers[m].name)
    /\ \A c \in Callers :
          (callers[c].name \in DOMAIN COMMON_TAXA /\ callers[c].pc # "idle") =>
              /\ callers[c].pc = "done"
              /\ callers[c].calls = 0
              /\ callers[c].result = JsNum(COMMON_TAXA[callers[c].name])

\* both resolvers have answered for a name of the table, fetchTaxonKey over a
\* persistent cache without its maps and matchSpeciesName over a match cache
\* that holds a remote match of another name
C13_Witness ==
    /\ \E m \in Matchers :
          matchers[m].name \in DOMAIN COMMON_TAXA /\ matchers[m].pc = "done"
    /\ \E c \in Callers :
          callers[c].name \in DOMAIN COMMON_TAXA /\ callers[c].pc = "done"
    /\ cache.present # MapNames
    /\ "ulva intestinalis" \in DOMAIN speciesMatchCache

\* whether fetchGBIFOccurrences(taxonKey) of the variant would return a list
\* held by cache c or Map oc instead of asking the network
ServedFromCache(c, oc, variant, taxonKey) ==
    IF variant = "cache"
    THEN ~GetOccurrences(c, taxonKey).threw /\ GetOccurrences(c, taxonKey).found
    ELSE taxonKey \in DOMAIN oc

\* C14 as stated: once clearGBIFCaches has returned, no call of either variant
\* of fetchGBIFOccurrences is served a cached occurrence list.
C14_ClearedMeansNetwork ==
    [][ClearGBIFCaches =>
          \A variant \in {"cache", "map"}, k \in TaxonKeys :
              ~ServedFromCache(cache', occurrencesCache', variant, k)]_vars

\* C15 as stated: while the provider is mounted, a run whose AbortController
\* has been aborted (the set of names changed while it was running) has no
\* request outstanding: those it had are cancelled and it issues no other.
C15_SupersededRunIsQuiet ==
    isMountedRef => \A r \in aborted : InFlight(r) = 0

\* C16 as stated: when the debounce timer fires on an empty list of names, the
\* published occurrences, successful names and failures are empty and
\* isLoading is false afterwards, whatever was published before.
C16_EmptySnapshot ==
    [][(debouncePending /\ ~debouncePending' /\ isMountedRef' /\ Len(speciesNames) = 0) =>
          /\ Shown' = NothingShown
          /\ ~published'.isLoading]_vars

\* C19 as stated: a matchSpeciesName call that returns null after every
\* request it made was answered (none failed at transport level) has stored
\* null for the name in the match cache.
C19_NullIsCached ==
    [][\A m \in Matchers :
          (MatchReturns(m) /\ matchers'[m].clean /\ matchers'[m].result = NullMatch) =>
              /\ ToLowerCase(Trim(matchers'[m].name)) \in DOMAIN speciesMatchCache'
              /\ speciesMatchCache'[ToLowerCase(Trim(matchers'[m].name))] = NullMatch]_vars

\* C20 as stated: a match that matchSpeciesName returns for a name matched
\* through its first two tokens, and the entry cached for that name, have a
\* confidence of at most 80.
C20_ReducedFormCapped ==
    \A m \in Matchers :
        (matchers[m].pc = "done" /\ matchers[m].reduced) =>
            /\ matchers[m].result.confidence <= 80
            /\ ToLowerCase(Trim(matchers[m].name)) \in DOMAIN speciesMatchCache =>
                  speciesMatchCache[ToLowerCase(Trim(matchers[m].name))].confidence <= 80

(***************************************************************************)
(* More claims about MapDataProvider, checked under Spec.                  *)
(***************************************************************************)
Count(seq, x) == Cardinality({i \in 1..Len(seq) : seq[i] = x})

FailedNames(run) == [i \in 1..Len(run.failedSpeciesList) |-> run.failedSpeciesList[i].name]

FailedWith(run, name, error) ==
    [name |-> name, error |-> error] \in Range(run.failedSpeciesList)

\* a run that went through all its groups and published
ReachedCompleted(run) == run.status = "completed" /\ run.published # "no"

\* C18: in a run that has completed and published, every name of the run is
\* exactly once in the successful names and the failures taken together; a
\* name whose resolution returned null failed with "Species not found in
\* GBIF", a name with an identifier and an empty list failed with "No
\* occurrences found", and a name with a non-empty list is successful with
\* its records in the run's occurrences.
C18_PerNameOutcome ==
    \A r \in DOMAIN runs :
        ReachedCompleted(runs[r]) =>
            \A name \in Range(runs[r].names) :
                /\ Count(runs[r].successfulSpecies, name)
                      + Count(FailedNames(runs[r]), name) = 1
                /\ name \in DOMAIN runs[r].how
                /\ runs[r].how[name] = "null" =>
                      FailedWith(runs[r], name, "Species not found in GBIF")
                /\ runs[r].how[name] = "empty" =>
                      FailedWith(runs[r], name, "No occurrences found")
                /\ runs[r].how[name] = "list" =>
                      /\ Count(runs[r].successfulSpecies, name) = 1
                      /\ name \in DOMAIN providerCache
                      /\ providerCache[name].occurrences # <<>>
                      /\ Range(providerCache[name].occurrences)
                            \subseteq Range(runs[r].newOccurrences)

\* a completed run with a name of each kind: not resolved, resolved without
\* occurrences, resolved with occurrences
C18_Witness ==
    \E r \in DOMAIN runs :
        /\ ReachedCompleted(runs[r])
        /\ {"null", "empty", "list"} \subseteq {runs[r].how[n] : n \in DOMAIN runs[r].how}

(***************************************************************************)
(* Claims about fetchGBIFData, checked under SpecTransport.                *)
(***************************************************************************)
BackoffPlan == <<InitialRetryDelay, 2 * InitialRetryDelay>>

\* C21: a call of the first client makes at most 3 attempts; the second is
\* made after a wait of 1000 ms and the third after a wait of 2000 ms; the
\* call rejects exactly when the third attempt has failed, every attempt
\* before it having failed too.
C21_RetryBudget ==
    \A q \in Requests :
        (requests[q].variant = "axios" /\ requests[q].pc # "idle") =>
            /\ Attempts(requests[q]) <= InitialRetry
            /\ Len(requests[q].waits) <= Len(BackoffPlan)
            /\ requests[q].waits = SubSeq(BackoffPlan, 1, Len(requests[q].waits))
            /\ Attempts(requests[q]) =
                  Len(requests[q].waits) + (IF requests[q].pc = "backoff" THEN 0 ELSE 1)
            /\ requests[q].pc = "rejected" <=>
                  /\ Len(requests[q].log) = InitialRetry
                  /\ \A i \in 1..Len(requests[q].log) : requests[q].log[i] # "ok"

\* three attempts have failed, one of each kind, and the call has rejected
C21_Witness ==
    \E q \in Requests :
        /\ requests[q].variant = "axios" /\ requests[q].pc = "rejected"
        /\ requests[q].log = <<"network", "timeout", "network">>
        /\ requests[q].waits = <<1000, 2000>>

\* C22 as stated: an attempt through the retrying instance that is answered
\* by a well-formed non-success response ends the call: the error goes to the
\* caller, no further attempt is made, no backoff timer is set and the retry
\* budget is left as it was.
C22_HttpErrorNotRetried ==
    \A q \in Requests : \A i \in 1..Len(requests[q].log) :
        (requests[q].variant = "axios" /\ requests[q].log[i] = "http") =>
            /\ requests[q].pc = "rejected"
            /\ Len(requests[q].log) = i
            /\ Len(requests[q].waits) = i - 1
            /\ requests[q].retry = InitialRetry - (i - 1)

\* C23 as stated: the fallback (the direct call) is attempted only after the
\* primary path (the local route) has failed, never while it is under way,
\* and a failure of the fallback ends the call without another attempt.
C23_FallbackIsTerminal ==
    \A q \in Requests :
        (requests[q].variant = "fetch" /\ requests[q].pc # "idle") =>
            /\ requests[q].pc = "direct" =>
                  Len(requests[q].log) = 1 /\ requests[q].log[1] # "ok"
            /\ Attempts(requests[q]) <= 2
            /\ (Len(requests[q].log) = 2 /\ requests[q].log[2] # "ok") =>
                  requests[q].pc = "rejected"

(***************************************************************************)
(* More claims about MapDataProvider, checked under Spec.                  *)
(***************************************************************************)
\* the step is a timer of a debounced function firing (a cleanup that
\* cancels a timer is one of InputChange or Unmount)
TimerFires ==
    /\ timers' # timers
    /\ timers' \subseteq timers
    /\ isMountedRef' = isMountedRef

GroupOf(j) == (j - 1) \div concurrencyLimit

\* the names whose pipeline has started, and those whose pipeline has settled
Settled(run) == DOMAIN run.how

Started(run) == DOMAIN run.pipes \cup Settled(run)

\* C25: the names of a run form consecutive groups of at most concurrencyLimit
\* in input order, and a pipeline of a later group has started only when the
\* pipeline of every name of every earlier group has settled, with success or
\* with a failure; the pipelines that wait for a response all belong to one
\* group.
C25_GroupSequencing ==
    \A r \in DOMAIN runs :
        LET run == runs[r]
        IN  /\ \A j, k \in 1..Len(run.names) :
                   (GroupOf(j) < GroupOf(k) /\ run.names[k] \in Started(run)) =>
                       /\ run.names[j] \in Settled(run)
                       /\ run.names[j] \in Range(run.successfulSpecies) \cup Range(FailedNames(run))
            /\ \A j, k \in 1..Len(run.names) :
                   (run.names[j] \in DOMAIN run.pipes /\ run.names[k] \in DOMAIN run.pipes) =>
                       GroupOf(j) = GroupOf(k)
            /\ Started(run) \subseteq Range(run.names)

\* the second group has started after the first settled with its last name
\* first
C25_Witness ==
    \E r \in DOMAIN runs :
        /\ "Ulva intestinalis" \in DOMAIN runs[r].pipes
        /\ Len(runs[r].failedSpeciesList) = 2
        /\ FailedNames(runs[r])[1] = "Nonexistent species"
        /\ runs[r].successfulSpecies = <<"Fucus vesiculosus">>

(***************************************************************************)
(* More claims about fetchGBIFOccurrences, checked under SpecFetch.        *)
(***************************************************************************)
\* the entry of taxonKey in the cache a variant of fetchGBIFOccurrences uses
OccurrencesEntry(c, map, variant, taxonKey) ==
    IF variant = "cache" THEN GetOccurrences(c, taxonKey)
    ELSE [threw |-> FALSE, found |-> taxonKey \in DOMAIN map,
          list |-> IF taxonKey \in DOMAIN map THEN map[taxonKey] ELSE <<>>]

\* the step ends a call of fetcher f that built its list from the response
StoresFetched(f) ==
    /\ fetchers[f].pc = "pages"
    /\ fetchers'[f].pc = "done"
    /\ fetchers'[f].served = "network"

\* C26: when fetchGBIFOccurrences(taxonKey, ...) missed the cache and built
\* its list from the response, the cache entry of taxonKey is the list it
\* returns; a call that finds an entry returns the entry, the empty list
\* included, without a request and without touching the cache; and an entry
\* changes only when a call that missed stores its list (or, for the
\* module-level Map, through clearGBIFCaches).
C26_FetchMemoized ==
    [][/\ \A f \in Fetchers :
            /\ StoresFetched(f) =>
                   OccurrencesEntry(cache', occurrencesCache', fetchers'[f].variant,
                                    fetchers'[f].taxonKey)
                       = [threw |-> FALSE, found |-> TRUE, list |-> fetchers'[f].result]
            /\ ( /\ fetchers[f].pc # "pages"
                 /\ fetchers'[f] # fetchers[f]
                 /\ fetchers'[f].taxonKey # 0
                 /\ OccurrencesEntry(cache, occurrencesCache, fetchers'[f].variant,
                                     fetchers'[f].taxonKey).found ) =>
                   /\ fetchers'[f].pc = "done"
                   /\ fetchers'[f].served = "cache"
                   /\ fetchers'[f].result =
                          OccurrencesEntry(cache, occurrencesCache, fetchers'[f].variant,
                                           fetchers'[f].taxonKey).list
                   /\ cache' = cache
                   /\ occurrencesCache' = occurrencesCache
       /\ \A variant \in {"cache", "map"}, k \in TaxonKeys :
            ( /\ OccurrencesEntry(cache, occurrencesCache, variant, k).found
              /\ OccurrencesEntry(cache', occurrencesCache', variant, k)
                    # OccurrencesEntry(cache, occurrencesCache, variant, k) ) =>
                   \/ \E f \in Fetchers :
                         /\ StoresFetched(f)
                         /\ fetchers'[f].variant = variant
                         /\ fetchers'[f].taxonKey = k
                   \/ variant = "map" /\ occurrencesCache' = EmptyObj]_vars

\* a call was served the empty list that an earlier call had fetched and stored
C26_Witness ==
    \E f \in Fetchers :
        /\ fetchers[f].pc = "done"
        /\ fetchers[f].variant = "cache"
        /\ fetchers[f].served = "cache"
        /\ fetchers[f].taxonKey \in TaxonKeys
        /\ fetchers[f].result = <<>>
        /\ GetOccurrences(cache, fetchers[f].taxonKey) =
               [threw |-> FALSE, found |-> TRUE, list |-> <<>>]

\* the newest run, when no input change has come since its timer fired
LiveRun ==
    IF runs # <<>> /\ timers = {} /\ isMountedRef /\ runs[Len(runs)].names = speciesNames
    THEN {runs[Len(runs)]}
    ELSE {}

\* C27 as stated: while the newest run, not superseded, is running, the
\* published isLoading is true.
C27_LoadingTracksLiveRun ==
    \A run \in LiveRun : run.status = "running" => published.isLoading

(***************************************************************************)
(* Claims about AlgaeMap, checked under SpecAlgaeMap.                      *)
(***************************************************************************)
\* the remote resolves the name, and the remote has occurrences that pass
\* the filter for the key
RemoteResolves(name) ==
    \/ name \in DOMAIN COMMON_TAXA
    \/ Truthy(MatchAnswer(name).usageKey)
    \/ ~SearchAnswer(name).empty /\ Truthy(OrElse(SearchAnswer(name).key, SearchAnswer(name).usageKey))

RemoteHasOccurrences(taxonKey) ==
    Slice(CollectPages(<<PageAnswer(taxonKey)>>, 1, TRUE), DefaultLimit) # <<>>

AlgaeKeys == {1} \cup {COMMON_TAXA[n] : n \in AlgaeNames \cap DOMAIN COMMON_TAXA}

\* C28 as stated: no cache tier holds a negative entry that a transport error
\* produced: a null identifier is cached only for a name the remote does not
\* resolve, an empty list only for a key the remote has no occurrences for,
\* in the persistent GBIFCache and in the per-name Map of the component.
C28_NoTransientNegatives ==
    /\ \A n \in DOMAIN cache.taxonKeys : cache.taxonKeys[n] = JsNull => ~RemoteResolves(n)
    /\ \A k \in AlgaeKeys :
           (GetOccurrences(cache, k).found /\ GetOccurrences(cache, k).list = <<>>) =>
               ~RemoteHasOccurrences(k)
    /\ \A n \in DOMAIN mapCache :
           /\ ~Truthy(mapCache[n].taxonKey) => ~RemoteResolves(n)
           /\ (Truthy(mapCache[n].taxonKey) /\ mapCache[n].occurrences = <<>>) =>
                  ~RemoteHasOccurrences(mapCache[n].taxonKey.val)

(***************************************************************************)
(* Termination of the runs of MapDataProvider, checked under SpecFair.     *)
(***************************************************************************)
\* the step arms the timer of a new debounced function: an input change
ChangesInput == timers' # timers /\ ~(timers' \subseteq timers)

\* C29: every loadOccurrences invocation that got past its guard reaches the
\* end of its loop (status "completed"), whether or not it was superseded or
\* the component was unmounted meanwhile; and when from some point on the
\* component stays mounted and no input change comes, isLoading is
\* eventually false for good.
C29_RunsTerminate ==
    /\ \A r \in 1..MaxRuns :
           (r \in DOMAIN runs) ~> (r \in DOMAIN runs /\ runs[r].status = "completed")
    /\ (<>[]isMountedRef /\ <>[][~ChangesInput]_vars) => <>[](~published.isLoading)

\* a run that waited for responses in both of its groups has completed while
\* the component stayed mounted, and isLoading is false
C29_Witness ==
    /\ isMountedRef
    /\ timers = {}
    /\ ~published.isLoading
    /\ \E r \in DOMAIN runs :
           /\ runs[r].status = "completed"
           /\ runs[r].names = ProviderNames
           /\ "Ulva intestinalis" \in DOMAIN runs[r].how
           /\ runs[r].transport # {}

(***************************************************************************)
(* Claims about resolveSynonym, checked under SpecSynonym.                 *)
(***************************************************************************)
\* C30: resolveSynonym applied to its own result returns that result, for
\* every synonym and accepted name of the table, with or without blanks
\* around it, and for names the table lacks: no accepted name of the table
\* is mapped to another name.  So a matchSpeciesName call nests at most one
\* call for the substituted name, and that call nests none.
C30_SynonymIdempotent ==
    /\ Len(resolved) = 2 => resolved[2] = resolved[1]
    /\ \A name \in SynonymInputs : resolveSynonym(resolveSynonym(name)) = resolveSynonym(name)
    /\ \A i \in DOMAIN SynonymEntries :
           SynonymEntries[i][2] \in DOMAIN TAXONOMIC_SYNONYMS =>
               TAXONOMIC_SYNONYMS[SynonymEntries[i][2]] = SynonymEntries[i][2]
    /\ Len(frames) <= 2
    /\ Len(frames) = 2 => resolveSynonym(frames[2]) = frames[2]

\* a synonym written with a blank: resolved twice to its accepted name, with
\* one nested call
C30_Witness ==
    /\ frames = <<"Laminaria saccharina ", "Saccharina latissima">>
    /\ resolved = <<"Saccharina latissima", "Saccharina latissima">>

====
